---- MODULE Spec2Model ----
(***************************************************************************)
(* A model of the orchestration core of the Fynn intelligence layer:       *)
(*   - IntelligenceOrchestrator      (structuredOutput/orchestrator.py)    *)
(*   - FastIntelligenceOrchestrator  (structuredOutput/fast_orchestrator.py)*)
(*   - the retrying model callers    (tools/llm_client.py,                 *)
(*                                    tools/fast_llm_client.py)            *)
(*                                                                         *)
(* Spec        one orchestrator instance serving analyze() requests one    *)
(*             after the other; the three service tasks of a request run   *)
(*             concurrently.  The service functions (generate_summary,     *)
(*             generate_recommendations, recommend_charts) are the mocked  *)
(*             unit: each invocation returns its payload or raises.        *)
(* SpecCaller  one retrying caller at a time, one model invocation per     *)
(*             step; the model is the mocked unit.                         *)
(* SpecClient  fast_llm_client.generate_content with its model-call cache, *)
(*             invoked repeatedly.                                         *)
(* SpecRace    two analyze() calls for one fingerprint in two threads, up  *)
(*             to their reads and writes of the whole-request cache.       *)
(* SpecService one analysis service with its chunk loop and its response   *)
(*             normalizer; the model is the mocked unit.                   *)
(* SpecCsv     the CSV fast path of FastIntelligenceOrchestrator, and      *)
(*             analyze_csv_locally called on a CSV text.                   *)
(* SpecClassify the two content classifiers on bytes without a MIME hint.  *)
(* FairSpec    Spec for a bounded number of calls, with weak fairness of   *)
(*             the steps of a request that is under way.                   *)
(*                                                                         *)
(* Abstractions: execution_time is left out of ServiceResult; durations    *)
(* are in milliseconds; an exception is identified with its message; the   *)
(* error_message of a ServiceResult is kept up to its fixed prefix (the    *)
(* text of the exception that follows the prefix is not kept).             *)
(***************************************************************************)
EXTENDS Integers, Sequences, FiniteSets, TLC

VARIABLES
    orch,       \* "std" (IntelligenceOrchestrator) or "fast" (FastIntelligenceOrchestrator)
    cache,      \* the whole-request cache: key -> entry
    nreq,       \* analyze() calls made so far
    pc,         \* position of the orchestrating thread
    req,        \* arguments of the current analyze() call
    proc,       \* resolved content, detected MIME type and cache key
    path,       \* route taken by the current call
    task,       \* per service: state of its worker task
    results,    \* the result map under assembly (keys assigned so far)
    returned,   \* the map analyze() returned
    hist,       \* per-call event counters (downloads, lookups, writes, ...)
    cl,         \* state of the unit under study in every specification but Spec
    race        \* two concurrent analyze() calls for one fingerprint, under SpecRace

vars == <<orch, cache, nreq, pc, req, proc, path, task, results, returned, hist, cl, race>>

\* ------------------------------------------------------------------ bounds

MaxRequests == 2

JitterSteps == 2

\* --------------------------------------------------------------- constants

\* orchestrator.py _download_with_retry(url, max_retries=3)
download_max_retries == 3

\* orchestrator.py _run_with_retry(..., max_retries=3, base_delay=1.0)
rwr_max_retries == 3

rwr_base_delay == 1000

\* llm_client.py generate_content(..., retries=3, backoff=1.0)
llm_retries == 3

llm_backoff == 1000

\* fast_llm_client.py generate_content(..., max_retries=3); (2 ** retry) * 0.5
fast_max_retries == 3

fast_backoff == 500

\* random.uniform(0, 0.5)
MaxJitterMs == 500

\* -------------------------------------------------------------- basic data

None == "None"

Services == {"summary", "recommendations", "visuals"}

Pow2(n) == IF n = 0 THEN 1 ELSE IF n = 1 THEN 2 ELSE IF n = 2 THEN 4 ELSE 8

NoData == [typed |-> FALSE, svc |-> None, src |-> None, mime |-> None, via |-> None]

NoMsg == <<>>

\* faulty variant: the error message is dropped
ServiceResult_Failure_NoMessage(msg) ==
    [success |-> FALSE, data |-> NoData, error_message |-> NoMsg]

\* ServiceResult(success=True, data=result)
ServiceResult_Success(data) ==
    [success |-> TRUE, data |-> data, error_message |-> NoMsg]

\* ServiceResult(success=False, error_message=msg): data keeps its default None
ServiceResult_Failure(msg) ==
    [success |-> FALSE, data |-> NoData, error_message |-> msg]

\* ErrorHandler.handle_error: f"{type(exception).__name__}: {str(exception)}"
handle_error(service_name, exception) ==
    ServiceResult_Failure(<<"TypeName: ">>)

\* faulty variant: the entry is keyed by the name handed to the error handler
ErrorMap_ByName(result) == [k \in {"File processing"} |-> result]

ErrorMap(result) == [k \in {"error"} |-> result]

EmptyMap == <<>>

\* the payload a service function returns for a content and MIME type
ModelPayload(s, content, mime) ==
    [typed |-> TRUE, svc |-> s, src |-> content.id, mime |-> mime, via |-> "model"]

\* the payload the fast path synthesizes from the local CSV profile
LocalPayload(s, content) ==
    [typed |-> TRUE, svc |-> s, src |-> content.id, mime |-> "text/csv", via |-> "local"]

\* ---------------------------------------------------------------- contents
(* A content is described by what the classifiers read of it:              *)
(*   typ        "str" or "bytes"                                           *)
(*   utf8       content[:1000] decodes as UTF-8                            *)
(*   multiline  len(splitlines()) > 1                                      *)
(*   commas0    commas in the first line (2 stands for "2 or more")        *)
(*   even       every one of the first 5 lines has a comma and the counts  *)
(*              differ by at most 1                                        *)
(*   magic      "pdf" (starts with %PDF), "zip" (starts with PK) or "none" *)
(*   parses     csv.reader accepts the text (analyze_csv_locally succeeds) *)

Txt == [id |-> "txt", typ |-> "str", utf8 |-> TRUE, multiline |-> FALSE, commas0 |-> 0,
        even |-> FALSE, magic |-> "none", parses |-> TRUE]

CsvStr == [id |-> "csvs", typ |-> "str", utf8 |-> TRUE, multiline |-> TRUE, commas0 |-> 2,
           even |-> TRUE, magic |-> "none", parses |-> TRUE]

CsvBytes == [id |-> "csvb", typ |-> "bytes", utf8 |-> TRUE, multiline |-> TRUE, commas0 |-> 2,
             even |-> TRUE, magic |-> "none", parses |-> TRUE]

CsvBad == [id |-> "csvx", typ |-> "bytes", utf8 |-> TRUE, multiline |-> TRUE, commas0 |-> 2,
           even |-> TRUE, magic |-> "none", parses |-> FALSE]

Pdf == [id |-> "pdf", typ |-> "bytes", utf8 |-> FALSE, multiline |-> TRUE, commas0 |-> 0,
        even |-> FALSE, magic |-> "pdf", parses |-> FALSE]

NoContent == [id |-> None, typ |-> None, utf8 |-> FALSE, multiline |-> FALSE, commas0 |-> 0,
              even |-> FALSE, magic |-> "none", parses |-> FALSE]

InlineContents == {Txt, CsvStr, CsvBad}

\* what the server may answer for the URL
UrlBodies == {Pdf}

Urls == {"http://u"}

MimeHints == {None, "text/csv"}

\* bytes.decode('utf-8') / str.encode('utf-8'): the same byte string under the other type
Decode(content) == [content EXCEPT !.typ = "str"]

\* ----------------------------------------------------- content classifier

\* orchestrator.py FileProcessor.process_file -> (processed content, metadata type)
process_file(content, mime_type) ==
    IF mime_type # None
    THEN [content |-> content, lossy |-> FALSE, type |-> mime_type]
    ELSE IF content.utf8 /\ content.multiline /\ content.even
    THEN [content |-> Decode(content), lossy |-> FALSE, type |-> "text/csv"]
    ELSE IF content.magic = "pdf"
    THEN [content |-> content, lossy |-> FALSE, type |-> "application/pdf"]
    ELSE IF content.magic = "zip"
    THEN [content |-> content, lossy |-> FALSE, type |-> "application/zip"]
    ELSE \* decode('utf-8', errors='ignore') drops the undecodable bytes
         [content |-> Decode(content), lossy |-> ~content.utf8, type |-> "text/plain"]

\* fast_orchestrator.py _detect_mime_type
_detect_mime_type(content, mime_type) ==
    IF mime_type # None THEN mime_type
    ELSE IF content.typ = "bytes"
    THEN IF content.utf8 /\ content.multiline /\ content.commas0 >= 1 THEN "text/csv"
         ELSE IF content.magic = "pdf" THEN "application/pdf"
         ELSE IF content.magic = "zip" THEN "application/zip"
         ELSE "text/plain"
    ELSE IF content.multiline /\ content.commas0 >= 1 THEN "text/csv"
    ELSE "text/plain"

\* fast_orchestrator.py _is_csv_content
_is_csv_content(content) ==
    IF content.typ = "bytes" /\ ~content.utf8 THEN FALSE
    ELSE content.multiline /\ content.commas0 >= 2

\* ------------------------------------------------------------ fingerprints

\* hashlib.md5(b).hexdigest(): one digest per byte string
md5(byteString, lossy) == [digest_of |-> byteString, lossy |-> lossy]

\* orchestrator.py _generate_cache_key
_generate_cache_key(p) == md5(p.content.id, p.lossy)

\* fast_orchestrator.py _get_file_id
_get_file_id(file_url, content) ==
    IF file_url # None THEN md5(file_url, FALSE)
    ELSE IF content # NoContent THEN md5(content.id, FALSE)
    ELSE md5("unknown", FALSE)

\* ------------------------------------------------------ whole-request cache
(* An entry is a record: state "valid" with the stored map, or "corrupt"   *)
(* (a file that json.load rejects).  A key without entry is not in DOMAIN. *)

ValidEntry(map) == [state |-> "valid", value |-> map]

CorruptEntry == [state |-> "corrupt", value |-> EmptyMap]

\* pydantic .dict(): nested models become plain dicts
ToDict(r) ==
    [r EXCEPT !.data = IF r.data = NoData THEN NoData ELSE [r.data EXCEPT !.typed = FALSE]]

\* orchestrator.py line 132: self.cache.get(cache_key); the stored map, or the
\* empty map for None (both are falsy to the caller)
cache_get(c, key) ==
    IF key \in DOMAIN c THEN c[key].value ELSE EmptyMap

\* faulty variant: the failure of the load is not caught and ends the request
\* as an orchestration error
_get_cached_result_Unchecked(c, file_id) ==
    IF file_id \notin DOMAIN c THEN EmptyMap
    ELSE IF c[file_id].state = "valid" THEN c[file_id].value
    ELSE ErrorMap(ServiceResult_Failure(<<"Orchestration error: ">>))

\* fast_orchestrator.py _get_cached_result; the deserialized map, or the empty
\* map for None (a missing file, or one that does not load)
_get_cached_result(c, file_id) ==
    IF file_id \in DOMAIN c /\ c[file_id].state = "valid"
    THEN c[file_id].value
    ELSE EmptyMap

\* faulty variant: the lookup result is never taken
Truthy_Never(m) == FALSE

\* truthiness of a dict-or-None
Truthy(m) == DOMAIN m # {}

\* faulty variant: the assignment is lost
cache_set_Dropped(c, key, map) == c

\* orchestrator.py line 156: self.cache[cache_key] = results
cache_set(c, key, map) == (key :> ValidEntry(map)) @@ c

\* fast_orchestrator.py _save_to_cache; outcome "ok", "unwritten" (the failure came
\* before the file was opened for writing) or "partial" (during json.dump)
_save_to_cache(c, file_id, map, outcome) ==
    IF outcome = "ok"
    THEN (file_id :> ValidEntry([k \in DOMAIN map |-> ToDict(map[k])])) @@ c
    ELSE IF outcome = "partial" THEN (file_id :> CorruptEntry) @@ c
    ELSE c

WriteOutcomes == {"ok", "unwritten", "partial"}

\* ---------------------------------------------------------------- download

\* what one requests.get + raise_for_status may do; every failure is a
\* requests.RequestException: "transport" a connection reset, a timeout or an
\* HTTP 5xx status, "http4xx" an HTTP 4xx status, "dns" a failed name lookup
DownloadOutcomes == {"ok", "transport", "http4xx", "dns"}

\* a 2xx answer, with a body ("ok") or with none ("empty"): requests.get
\* returns, raise_for_status passes, response.content is returned as it is
DownloadOk(out) == out \in {"ok", "empty"}

\* the answers of the server to one request, the empty body included
FetchOutcomes == DownloadOutcomes \cup {"empty"}

DownloadScripts == [1..download_max_retries -> DownloadOutcomes]

DownloadStart == [attempt |-> 0, status |-> "loop", requests |-> 0, sleeps |-> <<>>, error |-> None]

\* faulty variant: every backoff sleep lasts one second
_download_with_retry_Iter_FlatBackoff(st, out) ==
    IF DownloadOk(out)
    THEN [st EXCEPT !.status = "returned", !.requests = @ + 1]
    ELSE IF st.attempt = download_max_retries - 1
    THEN [st EXCEPT !.status = "raised", !.requests = @ + 1, !.error = out]
    ELSE [st EXCEPT !.attempt = @ + 1, !.requests = @ + 1, !.error = out,
                    !.sleeps = Append(@, 1000)]

\* orchestrator.py _download_with_retry: one pass of the loop body
_download_with_retry_Iter(st, out) ==
    IF DownloadOk(out)
    THEN [st EXCEPT !.status = "returned", !.requests = @ + 1]
    ELSE IF st.attempt = download_max_retries - 1
    THEN [st EXCEPT !.status = "raised", !.requests = @ + 1, !.error = out]
    ELSE [st EXCEPT !.attempt = @ + 1, !.requests = @ + 1, !.error = out,
                    !.sleeps = Append(@, 1000 * Pow2(st.attempt))]

RECURSIVE _download_with_retry_From(_, _, _)
_download_with_retry_From(st, script, i) ==
    IF st.status # "loop" \/ i > Len(script) THEN st
    ELSE _download_with_retry_From(_download_with_retry_Iter(st, script[i]), script, i + 1)

\* orchestrator.py _download_with_retry against a server answering script[1], script[2], ...
_download_with_retry(script) == _download_with_retry_From(DownloadStart, script, 1)

\* every way a call of _download_with_retry can end
DownloadRuns == {_download_with_retry(script) : script \in DownloadScripts}

\* fast_orchestrator.py _download_file: a single request
_download_file(out) ==
    [status |-> IF DownloadOk(out) THEN "returned" ELSE "raised", requests |-> 1,
     error |-> IF DownloadOk(out) THEN None ELSE out]

\* ------------------------------------------------- transient recognition
(* An exception message is one of these texts; a marker is "in" a message  *)
(* when it is that text.                                                   *)

Messages == {"overloaded", "UNAVAILABLE", "rate limit", "rate_limit", "timeout", "503",
             "bad request"}

\* str.lower()
Lower(msg) == IF msg = "UNAVAILABLE" THEN "unavailable" ELSE msg

\* faulty variant: every exception is retried
llm_IsTransient_Any(msg) == TRUE

\* llm_client.py line 56
llm_IsTransient(msg) ==
    Lower(msg) \in {"503", "unavailable", "rate limit", "rate_limit", "overloaded", "timeout"}

\* fast_llm_client.py line 121
fast_IsTransient(msg) == Lower(msg) = "overloaded"

\* faulty variant: every exception is retried
rwr_IsTransient_Any(msg) == TRUE

\* orchestrator.py line 178 (case-sensitive)
rwr_IsTransient(msg) == msg \in {"overloaded", "UNAVAILABLE", "rate limit"}

\* ------------------------------------------------- retrying model callers

GcStart == [attempt |-> 0, status |-> "loop", calls |-> 0, sleeps |-> <<>>, last_error |-> None]

\* llm_client.py generate_content lines 46-61: one pass of the loop body, the model
\* answering out; st.attempt counts the failed passes (the code's attempt is one more)
llm_generate_content_Iter(st, out) ==
    IF out = "ok"
    THEN [st EXCEPT !.status = "returned", !.calls = @ + 1]
    ELSE IF llm_IsTransient(out) /\ st.attempt + 1 < llm_retries
    THEN [st EXCEPT !.attempt = @ + 1, !.calls = @ + 1, !.last_error = out,
                    !.sleeps = Append(@, llm_backoff * Pow2(st.attempt))]
    ELSE [st EXCEPT !.status = "raised", !.calls = @ + 1, !.last_error = out]

\* the response object of a successful model call
ModelResponse == [text |-> <<"model text">>, parsed |-> "model parsed"]

\* faulty variant: the text of the sentinel is empty
ErrorResponse_Blank(error) == [text |-> <<>>, parsed |-> None]

\* fast_llm_client.py lines 126-130: class ErrorResponse, text = f"Error: {error}"
ErrorResponse(error) == [text |-> <<"Error: ", error>>, parsed |-> None]

\* fast_llm_client.py generate_content: what it returns from a final loop state
fast_generate_content_Response(st) ==
    IF st.status = "returned" THEN ModelResponse ELSE ErrorResponse(st.last_error)

\* fast_llm_client.py generate_content lines 96-130: one pass of the loop body;
\* "sentinel" is the return of an ErrorResponse
fast_generate_content_Iter(st, out) ==
    IF out = "ok"
    THEN [st EXCEPT !.status = "returned", !.calls = @ + 1]
    ELSE IF fast_IsTransient(out) /\ st.attempt < fast_max_retries - 1
    THEN [st EXCEPT !.attempt = @ + 1, !.calls = @ + 1, !.last_error = out,
                    !.sleeps = Append(@, Pow2(st.attempt) * fast_backoff)]
    ELSE [st EXCEPT !.status = "sentinel", !.calls = @ + 1, !.last_error = out]

RECURSIVE fast_generate_content_From(_, _, _)
fast_generate_content_From(st, script, i) ==
    IF st.status # "loop" \/ i > Len(script) THEN st
    ELSE fast_generate_content_From(fast_generate_content_Iter(st, script[i]), script, i + 1)

\* every way the loop of fast_llm_client.generate_content can end, the model
\* answering "ok", "overloaded" or "bad request" at each call
FastGcRuns ==
    {fast_generate_content_From(GcStart, script, 1) :
        script \in [1..fast_max_retries -> {"ok", "overloaded", "bad request"}]}

\* ------------------------------------------------------ model-call cache
(* fast_llm_client keeps one JSON file per key under CACHE_DIR.  An entry  *)
(* is "valid" with the stored {text, parsed}, or "corrupt" (json.load      *)
(* rejects the file).                                                      *)

Models == {"gemini-2.5-pro", "gemini-2.5-flash"}

\* prompts: "long_a" and "long_b" are longer than 1000 characters and agree
\* on their first 1000
Prompts == {"p", "long_a", "long_b"}

Configs == {None, "json"}

\* str(c)[:1000]
Prefix1000(prompt) == IF prompt \in {"long_a", "long_b"} THEN "long" ELSE prompt

\* fast_llm_client.py _get_cache_key, for the config after `config or {}`
fast_get_cache_key(model, contents, config) ==
    md5(<<model, Prefix1000(contents), config>>, FALSE)

NoResponse == [text |-> <<>>, parsed |-> None]

\* what the model may answer on success
ModelResponses == {[text |-> <<t>>, parsed |-> "model parsed"] : t \in {"t1", "t2"}}

CorruptResponseEntry == [state |-> "corrupt", value |-> NoResponse]

\* faulty variant: the file is never read
fast_get_cached_response_Never(store, cache_key) == NoResponse

\* fast_llm_client.py _get_cached_response: the loaded dict, or NoResponse for None
fast_get_cached_response(store, cache_key) ==
    IF cache_key \in DOMAIN store /\ store[cache_key].state = "valid"
    THEN store[cache_key].value
    ELSE NoResponse

\* fast_llm_client.py lines 88-92: class CachedResponse
CachedResponse(data) == [text |-> data.text, parsed |-> data.parsed]

\* fast_llm_client.py _save_to_cache; outcome as for the whole-request cache
fast_save_to_cache(store, cache_key, response_data, outcome) ==
    IF outcome = "ok" THEN (cache_key :> ValidEntry(response_data)) @@ store
    ELSE IF outcome = "partial" THEN (cache_key :> CorruptResponseEntry) @@ store
    ELSE store

\* cache_key = None
NoCacheKey == md5(<<None, None, None>>, FALSE)

NoArgs == [model |-> None, contents |-> None, config |-> None, use_cache |-> TRUE]

InitFc == [pc |-> "idle", store |-> <<>>, ninv |-> 0, args |-> NoArgs,
           key |-> NoCacheKey, resp |-> NoResponse, served |-> None, gc |-> GcStart,
           write |-> None, prev |-> NoCacheKey]

\* ------------------------------------------------------------ service tasks

\* random.uniform(0, 0.5), in milliseconds, on a grid
Jitters == {(MaxJitterMs * i) \div JitterSteps : i \in 0..JitterSteps}

RwrStart == [attempt |-> 0, status |-> "loop", calls |-> 0, sleeps |-> <<>>, last_error |-> None]

\* orchestrator.py _run_with_retry: one pass of the loop body, fn answering out
_run_with_retry_Iter(st, out, jitter) ==
    IF out = "ok"
    THEN [st EXCEPT !.status = "returned", !.calls = @ + 1]
    ELSE IF rwr_IsTransient(out)
    THEN [st EXCEPT !.attempt = @ + 1, !.calls = @ + 1, !.last_error = out,
                    !.sleeps = Append(@, rwr_base_delay * Pow2(st.attempt) + jitter),
                    !.status = IF st.attempt + 1 = rwr_max_retries THEN "exhausted" ELSE "loop"]
    ELSE [st EXCEPT !.status = "broke", !.calls = @ + 1, !.last_error = out]

RECURSIVE _run_with_retry_From(_, _, _)
_run_with_retry_From(st, script, i) ==
    IF st.status # "loop" \/ i > Len(script) THEN st
    ELSE _run_with_retry_From(_run_with_retry_Iter(st, script[i], 0), script, i + 1)

\* faulty variant: a failed loop is reported as a success
_run_with_retry_Result_Swallow(service_name, st, payload) ==
    ServiceResult_Success(payload)

\* orchestrator.py _run_with_retry: the ServiceResult it returns from a final loop state
_run_with_retry_Result(service_name, st, payload) ==
    IF st.status = "returned"
    THEN ServiceResult_Success(payload)
    ELSE handle_error(service_name, st.last_error)

\* what one invocation of a service function may do (Spec)
FnOutcomes == {"ok", "overloaded", "bad request"}

FnScripts == [1..rwr_max_retries -> FnOutcomes]

\* orchestrator.py _run_with_retry against a service function answering script[1], ...
_run_with_retry(script) == _run_with_retry_From(RwrStart, script, 1)

\* every way the loop of _run_with_retry can end
RwrRuns == {_run_with_retry(script) : script \in FnScripts}

\* orchestrator.py _run_summary_service, _run_recommendation_service, _run_visuals_service,
\* the loop of _run_with_retry ending in state st
Std_RunService(s, content, mime, st) ==
    _run_with_retry_Result(s, st, ModelPayload(s, content, mime))

FastPrefix(s) ==
    CASE s = "summary" -> "Summary service error: "
      [] s = "recommendations" -> "Recommendation service error: "
      [] OTHER -> "Visuals service error: "

FastCsvPrefix(s) ==
    CASE s = "summary" -> "Fast summary service error: "
      [] s = "recommendations" -> "Fast recommendation service error: "
      [] OTHER -> "Fast visuals service error: "

\* fast_orchestrator.py _run_summary_service, _run_recommendation_service, _run_visuals_service
Fast_RunService(s, content, mime, out) ==
    IF out = "ok"
    THEN ServiceResult_Success(ModelPayload(s, content, mime))
    ELSE ServiceResult_Failure(<<FastPrefix(s)>>)

\* tools/fast_llm_client.py analyze_csv_locally: TRUE when it returns a profile,
\* FALSE when it returns {"error": ...}
analyze_csv_locally(content) == content.parses

\* faulty variant: the local profile is not used
Fast_RunServiceFast_NoLocal(s, content, local_ok, out) ==
    IF out = "ok"
    THEN ServiceResult_Success(ModelPayload(s, content, "text/csv"))
    ELSE ServiceResult_Failure(<<FastCsvPrefix(s)>>)

\* faulty variant: without a local profile the service gives up
Fast_RunServiceFast_NoFallback(s, content, local_ok, out) ==
    IF local_ok
    THEN ServiceResult_Success(LocalPayload(s, content))
    ELSE ServiceResult_Failure(<<FastCsvPrefix(s)>>)

\* fast_orchestrator.py _run_summary_service_fast, _run_recommendation_service_fast,
\* _run_visuals_service_fast
Fast_RunServiceFast(s, content, local_ok, out) ==
    IF local_ok
    THEN ServiceResult_Success(LocalPayload(s, content))
    ELSE IF out = "ok"
    THEN ServiceResult_Success(ModelPayload(s, content, "text/csv"))
    ELSE ServiceResult_Failure(<<FastCsvPrefix(s)>>)

\* ------------------------------------------------- analyze: content stage

NoKey == md5("unknown", FALSE)

NoProc == [content |-> NoContent, lossy |-> FALSE, type |-> None]

InputErrorMessage == <<"Either file_url or content must be provided">>

\* faulty variant: the early return is missing and analyze goes on to the services
Stage1Error_Proceeds(result, downloads, lookups) ==
    [kind |-> "parallel", map |-> ErrorMap(result), p |-> NoProc, key |-> NoKey,
     downloads |-> downloads, lookups |-> lookups]

Stage1Error(result, downloads, lookups) ==
    [kind |-> "error", map |-> ErrorMap(result), p |-> NoProc, key |-> NoKey,
     downloads |-> downloads, lookups |-> lookups]

\* orchestrator.py analyze lines 130-133: the cache check
Std_CheckCache(p, downloads, c) ==
    LET cache_key == _generate_cache_key(p)
        cached == cache_get(c, cache_key)
    IN  [kind |-> IF Truthy(cached) THEN "hit" ELSE "parallel",
         map |-> cached, p |-> p, key |-> cache_key,
         downloads |-> downloads, lookups |-> 1]

\* faulty variant: a failed download is taken for an empty answer
Std_Stage1_DownloadIgnored(r, d, body, c) ==
    IF r.file_url # None
    THEN Std_CheckCache(process_file(body, r.mime_type), d.requests, c)
    ELSE IF r.content # NoContent
    THEN IF r.content.typ = "str"
         THEN Std_CheckCache([content |-> r.content, lossy |-> FALSE, type |-> "text/plain"], 0, c)
         ELSE Std_CheckCache(process_file(r.content, r.mime_type), 0, c)
    ELSE Stage1Error(ServiceResult_Failure(InputErrorMessage), 0, 0)

\* orchestrator.py analyze lines 114-137 (stage 1), the download (if any) ending
\* in state d and, when it returns, with `body`
Std_Stage1(r, d, body, c) ==
    IF r.file_url # None
    THEN IF d.status = "raised"
         THEN Stage1Error(handle_error("File processing", d.error), d.requests, 0)
         ELSE Std_CheckCache(process_file(body, r.mime_type), d.requests, c)
    ELSE IF r.content # NoContent
    THEN IF r.content.typ = "str"
         THEN Std_CheckCache([content |-> r.content, lossy |-> FALSE, type |-> "text/plain"], 0, c)
         ELSE Std_CheckCache(process_file(r.content, r.mime_type), 0, c)
    ELSE Stage1Error(ServiceResult_Failure(InputErrorMessage), 0, 0)

\* fast_orchestrator.py analyze lines 171-175: classification and choice of the path
Fast_Classify(content, r, file_id, downloads, lookups) ==
    LET detected_mime_type == _detect_mime_type(content, r.mime_type)
    IN  [kind |-> IF detected_mime_type = "text/csv" /\ _is_csv_content(content)
                  THEN "csv" ELSE "parallel",
         map |-> EmptyMap,
         p |-> [content |-> content, lossy |-> FALSE, type |-> detected_mime_type],
         key |-> file_id, downloads |-> downloads, lookups |-> lookups]

Fast_Hit(cached, file_id, lookups) ==
    [kind |-> "hit", map |-> cached, p |-> NoProc, key |-> file_id,
     downloads |-> 0, lookups |-> lookups]

\* fast_orchestrator.py analyze lines 138-175, the server answering the
\* download with `out` and, when it answers, with `body`
Fast_Stage1(r, out, body, c) ==
    IF r.file_url # None
    THEN LET file_id == _get_file_id(r.file_url, NoContent)
             cached == _get_cached_result(c, file_id)
             d == _download_file(out)
             looked == IF r.use_cache THEN 1 ELSE 0
         IN  IF r.use_cache /\ Truthy(cached)
             THEN Fast_Hit(cached, file_id, 1)
             ELSE IF d.status = "raised"
             THEN [Stage1Error(ServiceResult_Failure(<<"Failed to download file: ">>),
                               d.requests, looked) EXCEPT !.key = file_id]
             ELSE Fast_Classify(body, r, _get_file_id(r.file_url, body), d.requests, looked)
    ELSE IF r.content = NoContent
    THEN Stage1Error(ServiceResult_Failure(InputErrorMessage), 0, 0)
    ELSE LET file_id == _get_file_id(r.file_url, r.content)
             cached == _get_cached_result(c, file_id)
         IN  IF r.use_cache /\ Truthy(cached)
             THEN Fast_Hit(cached, file_id, 1)
             ELSE Fast_Classify(r.content, r, file_id, 0, IF r.use_cache THEN 1 ELSE 0)

\* --------------------------------------------------- model responses
(* A JSON document is kept by what the normalizers look at: its top-level  *)
(* type t, for an object the wrapper key it has ("chartjs" stands for an   *)
(* object with "type" and "data"), the length n of its list (the list      *)
(* itself, the list under the wrapper key, the key_points of a summary     *)
(* object) and the kind of the items of that list: "str" strings, "obj"    *)
(* objects with string fields, "badobj" objects whose x_axis is an object. *)
(* sval is the type of the value under "summary".                          *)

\* recommendations.py:167 max_items = 10
max_items == 10

\* visuals.py:144,170 entry[:200], raw[:200]
purpose_limit == 200

\* recommendations.py:56, summary.py:51, visuals.py:50: max_output, max_key_points, max_charts = 5
default_max == 5

\* the longest list in a model response
MaxItems == 11

\* the lengths, in characters, of a short and of a long response text
ShortLen == 150

LongLen == 250

Min(a, b) == IF a <= b THEN a ELSE b

ItemKinds == {"str", "obj", "badobj"}

ItemCounts == {0, 1, MaxItems}

NoDoc == [t |-> "none", key |-> None, n |-> 0, kind |-> "str", sval |-> "str"]

ListDoc(n, kind) == [t |-> "list", key |-> None, n |-> n, kind |-> kind, sval |-> "str"]

DictDoc(key, n, kind, sval) == [t |-> "dict", key |-> key, n |-> n, kind |-> kind, sval |-> sval]

Docs ==
    {ListDoc(n, k) : n \in ItemCounts, k \in ItemKinds}
    \cup {DictDoc(key, n, k, "str") : key \in {"recommendations", "charts"},
                                      n \in ItemCounts, k \in ItemKinds}
    \cup {DictDoc("summary", n, "str", sv) : n \in ItemCounts, sv \in {"str", "obj"}}
    \cup {DictDoc("chartjs", 0, "str", "str"), DictDoc("other", 0, "str", "str")}

\* Python truthiness of response.parsed
DocTruthy(doc) ==
    /\ doc.t # "none"
    /\ ~(doc.t = "list" /\ doc.n = 0)

\* the list a document holds, if it holds one
HasArray(doc) == doc.t = "list" \/ (doc.t = "dict" /\ doc.key \in {"recommendations", "charts", "summary"})

InnerList(doc) == ListDoc(doc.n, doc.kind)

(* response.text: "absent" the response has no such attribute, "null" the  *)
(* attribute is None, "empty" it is "", "json" it is a JSON document,      *)
(* "prose" it is prose around a JSON document, "plain" it is text with no  *)
(* bracket and no brace.  lines is the number of its non-blank lines and   *)
(* len its length in characters.                                           *)

NoText(form) == [form |-> form, doc |-> NoDoc, lines |-> 0, len |-> 0]

Texts ==
    {NoText(form) : form \in {"absent", "null", "empty"}}
    \cup {[form |-> "plain", doc |-> NoDoc, lines |-> l, len |-> n] :
             l \in {1, MaxItems}, n \in {ShortLen, LongLen}}
    \cup {[form |-> f, doc |-> d, lines |-> 1, len |-> LongLen] :
             f \in {"json", "prose"}, d \in Docs}

\* the answers of the model: the SDK fills parsed or leaves it None
Responses ==
    {[parsed |-> NoDoc, text |-> t] : t \in Texts}
    \cup {[parsed |-> d, text |-> [form |-> "json", doc |-> d, lines |-> 1, len |-> LongLen]] :
             d \in Docs}
    \cup {[parsed |-> d, text |-> NoText("null")] : d \in Docs}

\* what a normalizer returns, or that it raised
NormRaised(error) ==
    [status |-> "raised", error |-> error, n |-> 0, kind |-> "none", src |-> "none",
     plen |-> 0]

\* a list of n items of one kind; src names where it was taken from and plen
\* is the length of the purpose of a text_summary entry
NormList(n, kind, src, plen) ==
    [status |-> "returned", error |-> None, n |-> n, kind |-> kind, src |-> src,
     plen |-> plen]

\* ----------------------------------------------- response normalizers

\* recommendations.py lines 109-112, 118-121, 142-145: the value under the
\* wrapper key, else the document itself
rec_Pick(doc) ==
    IF doc.t = "dict" /\ doc.key = "recommendations" THEN InnerList(doc) ELSE doc

\* recommendations.py line 105: text = response.text or None
rec_HasText(response) == response.text.form \in {"json", "prose", "plain"}

\* recommendations.py lines 107-147: parsed, json.loads, the array pattern, the
\* object pattern
rec_Items(response) ==
    IF DocTruthy(response.parsed) THEN rec_Pick(response.parsed)
    ELSE IF ~rec_HasText(response) THEN NoDoc
    ELSE IF response.text.form = "json" THEN rec_Pick(response.text.doc)
    ELSE IF response.text.form = "prose" /\ HasArray(response.text.doc)
    THEN InnerList(response.text.doc)
    ELSE IF response.text.form = "prose" /\ response.text.doc.t = "dict"
    THEN rec_Pick(response.text.doc)
    ELSE NoDoc

\* recommendations.py lines 150-161: json.loads of the joined lines
rec_Joined(response, items) ==
    IF items.t = "list" THEN items
    ELSE IF rec_HasText(response) /\ response.text.form = "json"
    THEN IF response.text.doc.t = "dict" /\ response.text.doc.key = "recommendations"
         THEN InnerList(response.text.doc)
         ELSE IF response.text.doc.t = "list" THEN response.text.doc
         ELSE items
    ELSE items

\* recommendations.py lines 163-164: the non-blank lines of raw; raw is
\* str(None) when there is no text
rec_Lines(response) ==
    ListDoc(IF rec_HasText(response) THEN response.text.lines ELSE 1, "str")

\* recommendations.py RecommendationService._parse_response; the last line
\* validates RecommendationModel.recommendations: List[str]
rec_parse_response(response) ==
    LET items == rec_Joined(response, rec_Items(response))
        final == IF items.t = "list" THEN items ELSE rec_Lines(response)
        cut == Min(final.n, max_items)
    IN  IF cut > 0 /\ final.kind # "str"
        THEN NormRaised("ValidationError")
        ELSE NormList(cut, "str", IF items.t = "list" THEN "json" ELSE "lines", 0)

\* visuals.py lines 100-125: parsed, json.loads, the array pattern or else the
\* object pattern; re.search raises TypeError on a text that is None
vis_Data(response) ==
    IF DocTruthy(response.parsed) THEN response.parsed
    ELSE IF response.text.form = "json" THEN response.text.doc
    ELSE IF response.text.form = "prose" /\ HasArray(response.text.doc)
    THEN InnerList(response.text.doc)
    ELSE IF response.text.form = "prose" /\ response.text.doc.t = "dict"
    THEN response.text.doc
    ELSE NoDoc

\* visuals.py lines 127-165: the entries made from data; n entries of kind
\* "chart", "text_summary" or "chartjs", or the ValidationError of ChartSpec
vis_Specs(data, max_charts) ==
    IF data.t = "list"
    THEN IF Min(data.n, max_charts) > 0 /\ data.kind = "badobj"
         THEN NormRaised("ValidationError")
         ELSE NormList(Min(data.n, max_charts),
                       IF data.kind = "str" THEN "text_summary" ELSE "chart", "json",
                       IF data.kind = "str" THEN Min(ShortLen, purpose_limit) ELSE 0)
    ELSE IF data.t = "dict" /\ data.key = "chartjs"
    THEN NormList(1, "chartjs", "json", 0)
    ELSE IF data.t = "dict" /\ data.key = "charts"
    THEN IF Min(data.n, max_charts) > 0 /\ data.kind = "badobj"
         THEN NormRaised("ValidationError")
         ELSE NormList(IF data.kind = "obj" THEN Min(data.n, max_charts) ELSE 0,
                       "chart", "json", 0)
    ELSE NormList(0, "chart", "json", 0)

\* visuals.py lines 168-170: raw = getattr(response, "text", str(response));
\* the length of raw (str(response) is a long text), None[:200] raises
vis_RawLen(response) ==
    IF response.text.form = "absent" THEN LongLen ELSE response.text.len

\* faulty variant: the fallback entry is left out
vis_parse_response_NoFallback(response, max_charts) ==
    IF ~DocTruthy(response.parsed) /\ response.text.form = "null"
       /\ vis_Data(response).t = "none"
    THEN NormRaised("TypeError")
    ELSE vis_Specs(vis_Data(response), max_charts)

\* visuals.py VisualsService._parse_response
vis_parse_response(response, max_charts) ==
    IF ~DocTruthy(response.parsed) /\ response.text.form = "null"
    THEN NormRaised("TypeError")
    ELSE LET specs == vis_Specs(vis_Data(response), max_charts)
         IN  IF specs.status = "raised" \/ specs.n > 0 THEN specs
             ELSE IF response.text.form = "null" THEN NormRaised("TypeError")
             ELSE NormList(1, "text_summary", "raw",
                           Min(vis_RawLen(response), purpose_limit))

\* summary.py lines 94-107: the parsed response, SummaryModel(**parsed) raising
\* inside the try when a field has the wrong type
sum_FromParsed(response) ==
    LET parsed == response.parsed
    IN  IF DocTruthy(parsed) /\ parsed.t = "dict"
        THEN IF parsed.key = "summary"
             THEN IF parsed.sval = "str" /\ (parsed.n = 0 \/ parsed.kind = "str")
                  THEN NormList(parsed.n, "str", "parsed", 0)
                  ELSE NormRaised("ValidationError")
             ELSE NormList(0, "str", "parsed_repr", 0)
        ELSE NormRaised("no parsed dict")

\* summary.py lines 110-127: the text between the first "{" and the last "}"
sum_FromText(response) ==
    LET text == response.text
    IN  IF text.form \in {"json", "prose"} /\ text.doc.t = "dict"
        THEN IF text.doc.key = "summary"
             THEN IF text.doc.sval = "str" /\ (text.doc.n = 0 \/ text.doc.kind = "str")
                  THEN NormList(text.doc.n, "str", "text_json", 0)
                  ELSE NormRaised("ValidationError")
             ELSE NormList(0, "str", "json_str", 0)
        ELSE IF text.form \in {"json", "prose"} /\ text.doc.kind # "str" /\ text.doc.n = 1
        THEN NormList(0, "str", "json_str", 0)
        ELSE NormRaised("no JSON object")

\* summary.py lines 130-134: SummaryModel(summary=response.text, key_points=[]),
\* summary: str rejecting None
sum_LastResort(response) ==
    IF response.text.form = "null" THEN NormRaised("ValidationError")
    ELSE NormList(0, "str", "text", 0)

\* summary.py SummaryService.generate_summary lines 94-134 (the lines after
\* them cannot be reached); the list is key_points
sum_normalize(response, max_key_points) ==
    IF sum_FromParsed(response).status = "returned" THEN sum_FromParsed(response)
    ELSE IF sum_FromText(response).status = "returned" THEN sum_FromText(response)
    ELSE sum_LastResort(response)

\* ------------------------------------------------------ analysis services
(* generate_summary, generate_recommendations and recommend_charts: one    *)
(* call of the full model for a str or for bytes below the size limit, or  *)
(* for larger bytes a call of the light model per chunk and then a         *)
(* consolidation call, a fallback call on a prefix of the text, or none.   *)

\* the most chunks DocumentChunker.chunk_text yields for an input
MaxChunks == 6

\* recommendations.py:80 chunk_recs[:2]; visuals.py:80 max_charts=2
top_k == 2

\* recommendations.py:70 chunks[:4], summary.py:68 chunks[:5], visuals.py:66 chunks[:3]
ChunkCap(s) == IF s = "recommendations" THEN 4 ELSE IF s = "summary" THEN 5 ELSE 3

\* the normalizer of service s
Normalize(s, response, max) ==
    IF s = "summary" THEN sum_normalize(response, max)
    ELSE IF s = "recommendations" THEN rec_parse_response(response)
    ELSE vis_parse_response(response, max)

\* what the loop over the chunks does with the answer to one chunk:
\* raised is the exception leaving the service, add the number of partial
\* items appended.
\* recommendations.py lines 78-80: chunk_recs is a RecommendationModel, never
\* a list, so nothing is appended; visuals.py lines 80-82: the entries of
\* _parse_response(chunk_response, max_charts=2); summary.py lines 75-82: one
\* summary per chunk, every exception caught
ChunkPartial(s, response) ==
    IF s = "recommendations"
    THEN [raised |-> rec_parse_response(response).status = "raised", add |-> 0]
    ELSE IF s = "visuals"
    THEN [raised |-> vis_parse_response(response, top_k).status = "raised",
          add |-> vis_parse_response(response, top_k).n]
    ELSE [raised |-> FALSE, add |-> 1]

\* what follows the loop over the chunks: recommendations.py lines 83-98,
\* visuals.py lines 85-94, summary.py lines 85-92
AfterChunks(s, partials) ==
    IF s = "summary" THEN "consolidate"
    ELSE IF s = "recommendations"
    THEN IF partials > 0 THEN "consolidate" ELSE "fallback"
    ELSE IF partials > 0 THEN "direct" ELSE "fallback"

NoModelResponse == [parsed |-> NoDoc, text |-> NoText("absent")]

NoNorm == NormList(0, "none", "none", 0)

InitSv == [pc |-> "idle", svc |-> None, big |-> FALSE, max |-> 0, nchunks |-> 0, i |-> 0,
           partials |-> 0, extractable |-> FALSE, calls |-> <<>>,
           resp |-> NoModelResponse, norm |-> NoNorm, out |-> NoNorm]

\* ---------------------------------------------------- local CSV analysis
(* A CSV text is kept as its header row, in order, the set of the columns  *)
(* whose every value float() accepts, the number of its data rows, and     *)
(* whether csv.reader reads it and finds a first row.                      *)

\* the most columns and the most data rows of a CSV text
MaxCols == 3

MaxRows == 2

HeaderNames == {"Date", "Supplier", "Amount", "Category"}

\* the sequences of at most n distinct header names
RECURSIVE HeaderRows(_)
HeaderRows(n) ==
    IF n = 0 THEN {<<>>}
    ELSE HeaderRows(n - 1)
         \cup {Append(h, c) : h \in {g \in HeaderRows(n - 1) : Len(g) = n - 1},
                               c \in HeaderNames}

Distinct(h) == \A i, j \in 1..Len(h) : i # j => h[i] # h[j]

\* the empty text, where rows[0] raises IndexError, and a text with a field
\* beyond csv.field_size_limit(), where csv.reader raises csv.Error
UnreadTables ==
    {[headers |-> <<>>, numeric |-> {}, rows |-> 0, readable |-> FALSE],
     [headers |-> <<"Date", "Supplier", "Amount">>, numeric |-> {}, rows |-> 1,
      readable |-> FALSE]}

Tables ==
    {[headers |-> h, numeric |-> num, rows |-> r, readable |-> TRUE] :
        h \in {g \in HeaderRows(MaxCols) : Len(g) >= 1 /\ Distinct(g)},
        num \in SUBSET HeaderNames, r \in 0..MaxRows}
    \cup UnreadTables

NoTable == [headers |-> <<>>, numeric |-> {}, rows |-> 0, readable |-> FALSE]

\* the entries of seq that satisfy Keep, in order
RECURSIVE Filter(_, _)
Filter(seq, keep) ==
    IF seq = <<>> THEN <<>>
    ELSE IF seq[1] \in keep THEN <<seq[1]>> \o Filter(Tail(seq), keep)
    ELSE Filter(Tail(seq), keep)

Range(seq) == {seq[i] : i \in 1..Len(seq)}

NoProfile == [error |-> FALSE, headers |-> <<>>, row_count |-> 0,
              numeric_columns |-> <<>>, categorical_columns |-> <<>>]

\* fast_llm_client.py analyze_csv_locally lines 151-201: the result for a CSV
\* text, {"error": ...} when the parse raised and the profile otherwise; the
\* dicts keep the order of the header row, and a column is numeric when it
\* has a value and float() accepts every one (line 163)
csv_profile(table) ==
    IF ~table.readable
    THEN [NoProfile EXCEPT !.error = TRUE]
    ELSE LET numeric == IF table.rows = 0 THEN {} ELSE table.numeric
         IN  [error |-> FALSE,
              headers |-> table.headers,
              row_count |-> table.rows,
              numeric_columns |-> Filter(table.headers, numeric),
              categorical_columns |-> Filter(table.headers, HeaderNames \ numeric)]

\* fast_orchestrator.py lines 390-392: some header, in lower case, is one of the names
HasHeader(headers, names) == Range(headers) \cap names # {}

\* fast_orchestrator.py _run_summary_service_fast lines 333-355: the row count
\* of the title and of the summary, and the number of key points
fast_summary(profile) ==
    [row_count |-> profile.row_count,
     columns |-> Len(profile.headers),
     key_points |-> 2 + Len(profile.numeric_columns) + Len(profile.categorical_columns)]

\* the three general recommendations of lines 403-407
general_recommendations == <<"supplier_relationship", "e_procurement", "regular_review">>

\* faulty variant: the general recommendations come first
fast_recommendation_list_GeneralFirst(profile) ==
    general_recommendations
    \o (IF HasHeader(profile.headers, {"Amount"}) /\ HasHeader(profile.headers, {"Supplier"})
        THEN <<"consolidate_suppliers", "spend_analysis">> ELSE <<>>)
    \o (IF HasHeader(profile.headers, {"Category"}) THEN <<"category_sourcing">> ELSE <<>>)

\* fast_orchestrator.py _run_recommendation_service_fast lines 386-407: the
\* recommendations, in order
fast_recommendation_list(profile) ==
    (IF HasHeader(profile.headers, {"Amount"}) /\ HasHeader(profile.headers, {"Supplier"})
     THEN <<"consolidate_suppliers", "spend_analysis">> ELSE <<>>)
    \o (IF HasHeader(profile.headers, {"Category"}) THEN <<"category_sourcing">> ELSE <<>>)
    \o general_recommendations

\* the number of recommendations
fast_recommendations(profile) == Len(fast_recommendation_list(profile))

ChartOf(type, x, y, about) == [chart_type |-> type, x_axis |-> x, y_axis |-> y, about |-> about]

\* fast_orchestrator.py lines 441-445: the first header with a date term in it
date_col(headers) ==
    IF Filter(headers, {"Date"}) = <<>> THEN None ELSE Filter(headers, {"Date"})[1]

\* faulty variant: the line chart is left out
fast_visuals_NoLine(profile) ==
    LET numeric_cols == profile.numeric_columns
        categorical_cols == profile.categorical_columns
        bar == IF categorical_cols # <<>> /\ numeric_cols # <<>>
               THEN <<ChartOf("bar", categorical_cols[1], numeric_cols[1], categorical_cols[1])>>
               ELSE <<>>
        pie == IF categorical_cols # <<>>
               THEN <<ChartOf("pie", None, None, categorical_cols[1])>>
               ELSE <<>>
    IN  IF bar \o pie = <<>>
        THEN <<ChartOf("text_summary", None, None, None)>>
        ELSE bar \o pie

\* fast_orchestrator.py _run_visuals_service_fast lines 437-492: the charts;
\* about is the column named in the purpose
fast_visuals(profile) ==
    LET numeric_cols == profile.numeric_columns
        categorical_cols == profile.categorical_columns
        bar == IF categorical_cols # <<>> /\ numeric_cols # <<>>
               THEN <<ChartOf("bar", categorical_cols[1], numeric_cols[1], categorical_cols[1])>>
               ELSE <<>>
        pie == IF categorical_cols # <<>>
               THEN <<ChartOf("pie", None, None, categorical_cols[1])>>
               ELSE <<>>
        line == IF date_col(profile.headers) # None /\ numeric_cols # <<>>
                THEN <<ChartOf("line", date_col(profile.headers), numeric_cols[1],
                               numeric_cols[1])>>
                ELSE <<>>
    IN  IF bar \o pie \o line = <<>>
        THEN <<ChartOf("text_summary", None, None, None)>>
        ELSE bar \o pie \o line

\* the CSV text as the classifier sees it: UTF-8 bytes, of several lines
\* when there is a data row, one comma less than columns in the header line
TableBytes(table) ==
    [id |-> "table", typ |-> "bytes", utf8 |-> TRUE, multiline |-> table.rows >= 1,
     commas0 |-> IF table.headers = <<>> THEN 0 ELSE Len(table.headers) - 1,
     even |-> TRUE, magic |-> "none", parses |-> table.readable]

NoSummary == [row_count |-> 0, columns |-> 0, key_points |-> 0]

InitCsv == [pc |-> "idle", table |-> NoTable, path |-> None, profile |-> NoProfile,
            summary |-> NoSummary, recommendations |-> 0, visuals |-> <<>>,
            ran |-> {}, model |-> {}, list |-> <<>>]

\* orchestrator.py analyze lines 116-123: how often stage 1, ending as res,
\* called FileProcessor.process_file; it is called for a downloaded body and
\* for bytes content, before the cache key is computed
Std_ClassifierRuns(r, res) ==
    IF r.file_url # None
    THEN IF res.kind = "error" THEN 0 ELSE 1
    ELSE IF r.content # NoContent /\ r.content.typ = "bytes" THEN 1
    ELSE 0

\* faulty variant: the classifier is called on a cache hit too
Fast_ClassifierRuns_OnHit(res) ==
    IF res.kind = "error" THEN 0 ELSE 1

\* fast_orchestrator.py analyze lines 141-172: how often stage 1, ending as
\* res, called _detect_mime_type; both cache lookups return before it
Fast_ClassifierRuns(res) ==
    IF res.kind \in {"csv", "parallel"} THEN 1 ELSE 0

\* ------------------------------------------------------ sniffed contents
(* A byte string as the classifiers see it: whether it decodes as UTF-8,   *)
(* the number of commas in each line of its first 1000 bytes, and its      *)
(* leading magic bytes.                                                    *)

\* the most lines of a sample and the most commas in one line
MaxLines == 6

MaxCommas == 2

RECURSIVE CommaRows(_)
CommaRows(n) ==
    IF n = 0 THEN {<<>>}
    ELSE CommaRows(n - 1)
         \cup {Append(h, c) : h \in {g \in CommaRows(n - 1) : Len(g) = n - 1},
                               c \in 0..MaxCommas}

\* orchestrator.py process_file lines 34-35: comma_counts of lines[:5], all
\* positive and max - min <= 1
comma_counts_even(lines) ==
    LET comma_counts == SubSeq(lines, 1, Min(5, Len(lines)))
    IN  /\ \A i \in 1..Len(comma_counts) : comma_counts[i] > 0
        /\ \A i, j \in 1..Len(comma_counts) : comma_counts[i] - comma_counts[j] <= 1

\* the content with these lines; len(lines) > 1 is multiline, lines[0].count(',')
\* is commas0
Sniffed(utf8, lines, magic) ==
    [id |-> <<utf8, lines, magic>>, typ |-> "bytes", utf8 |-> utf8,
     multiline |-> Len(lines) > 1,
     commas0 |-> IF lines = <<>> THEN 0 ELSE lines[1],
     even |-> lines # <<>> /\ comma_counts_even(lines),
     magic |-> magic, parses |-> FALSE]

InitCf == [pc |-> "idle", lines |-> <<>>, sample |-> NoContent, type |-> None]

\* ------------------------------------------------- concurrent requests
(* Two analyze() calls for the same fingerprint, cache enabled, run in two *)
(* threads.  The cache entry of the fingerprint is `file`, a sequence of   *)
(* blocks: FastIntelligenceOrchestrator writes its JSON file through       *)
(* open(path, 'w') (which truncates) and buffered writes, one block per    *)
(* flush; IntelligenceOrchestrator assigns a dict slot in one step.        *)
(* Nothing orders the writes of the two threads, so the file may hold any  *)
(* interleaving of their blocks.                                           *)

Reqs == {1, 2}

\* the longest serialized map, in blocks
MaxBlocks == 2

Block(i, j) == [req |-> i, idx |-> j]

\* the bytes of a hole (a write beyond the end of a truncated file)
Hole == Block(0, 0)

\* the complete serialized map of request i
FileOf(i, len) == [j \in 1..len |-> Block(i, j)]

\* write(2) of block b at byte offset pos (in blocks)
WriteAt(file, pos, b) ==
    [j \in 1..(IF pos + 1 > Len(file) THEN pos + 1 ELSE Len(file)) |->
        IF j = pos + 1 THEN b
        ELSE IF j <= Len(file) THEN file[j]
        ELSE Hole]

MapOf(i) == IF i = 1 THEN "map1" ELSE "map2"

\* what a lookup may obtain from the file, lens[i] being the length of the map
\* of request i: the complete map of one request; nothing (no file, an empty or
\* unloadable file); for blocks of two maps of equal layout, either nothing or
\* a map mixing the two (json.load accepts it when the seams fall between tokens)
Load(file, lens) ==
    IF \E i \in Reqs : lens[i] > 0 /\ file = FileOf(i, lens[i])
    THEN {MapOf(i) : i \in {k \in Reqs : lens[k] > 0 /\ file = FileOf(k, lens[k])}}
    ELSE IF /\ Len(file) > 1
            /\ \A j \in 1..Len(file) :
                  file[j] # Hole /\ file[j].idx = j /\ lens[file[j].req] = Len(file)
    THEN {"none", "mixed"}
    ELSE {"none"}

InitRace ==
    [file |-> <<>>,
     rq |-> [i \in Reqs |-> [pc |-> "lookup", len |-> 0, pos |-> 0, got |-> "none"]],
     seen |-> {}, last |-> 0]

\* ---------------------------------------------------------- Spec: actions

InitReq == [file_url |-> None, content |-> NoContent, mime_type |-> None, use_cache |-> TRUE]

InitProc == [content |-> NoContent, type |-> None, key |-> NoKey, local_ok |-> FALSE]

InitHist == [downloads |-> 0, lookups |-> 0, writes |-> 0, write_failed |-> FALSE,
             called |-> {}, raised |-> {}, download |-> "none", classified |-> 0]

InitCl == [kind |-> None, gc |-> GcStart, rwr |-> RwrStart, calls |-> 0, sleeps |-> <<>>,
           slept |-> 0, last |-> None, outs |-> <<>>, fc |-> InitFc,
           dl |-> DownloadStart, sv |-> InitSv, csv |-> InitCsv, cf |-> InitCf,
           steady |-> TRUE]

Init ==
    /\ orch \in {"std", "fast"}
    /\ cache = <<>>
    /\ nreq = 0
    /\ pc = "idle"
    /\ req = InitReq
    /\ proc = InitProc
    /\ path = None
    /\ task = [s \in Services |-> "none"]
    /\ results = EmptyMap
    /\ returned = EmptyMap
    /\ hist = InitHist
    /\ cl = InitCl
    /\ race = InitRace

\* a caller invokes analyze(file_url, content, mime_type[, use_cache])
analyze_Call ==
    /\ pc \in {"idle", "done"}
    /\ nreq < MaxRequests
    /\ \E u \in Urls \cup {None}, c \in InlineContents \cup {NoContent},
          m \in MimeHints, uc \in BOOLEAN :
          /\ orch = "std" => uc
          /\ req' = [file_url |-> u, content |-> c, mime_type |-> m, use_cache |-> uc]
    /\ nreq' = nreq + 1
    /\ pc' = "stage1"
    /\ proc' = InitProc
    /\ path' = None
    /\ task' = [s \in Services |-> "none"]
    /\ results' = EmptyMap
    /\ returned' = EmptyMap
    /\ hist' = InitHist
    /\ UNCHANGED <<orch, cache, cl, race>>

\* the content stage ends: analyze returns (an error map, a cached map) or goes on
\* d is how the download ended; it counts when a request was sent; runs is
\* the number of calls of the classifier
Stage1Done(r, d, runs) ==
    /\ hist' = [hist EXCEPT !.downloads = r.downloads, !.lookups = r.lookups,
                            !.download = IF r.downloads = 0 THEN "none" ELSE d,
                            !.classified = runs]
    /\ proc' = [content |-> r.p.content, type |-> r.p.type, key |-> r.key, local_ok |-> FALSE]
    /\ path' = r.kind
    /\ pc' = IF r.kind \in {"error", "hit"} THEN "done"
             ELSE IF r.kind = "csv" THEN "csv" ELSE "submit"
    /\ returned' = IF r.kind \in {"error", "hit"} THEN r.map ELSE returned
    /\ UNCHANGED <<orch, cache, nreq, req, task, results, cl, race>>

\* orchestrator.py analyze lines 114-137
Std_analyze_Stage1 ==
    /\ orch = "std"
    /\ pc = "stage1"
    /\ \E r \in {<<Std_Stage1(req, d, body, cache), d.status>> :
                    d \in DownloadRuns, body \in UrlBodies} :
          Stage1Done(r[1], r[2], Std_ClassifierRuns(req, r[1]))

\* fast_orchestrator.py analyze lines 138-175
Fast_analyze_Stage1 ==
    /\ orch = "fast"
    /\ pc = "stage1"
    /\ \E r \in {<<Fast_Stage1(req, out, body, cache), _download_file(out).status>> :
                    out \in DownloadOutcomes, body \in UrlBodies} :
          Stage1Done(r[1], r[2], Fast_ClassifierRuns(r[1]))

\* orchestrator.py lines 141-146, fast_orchestrator.py lines 186-191: the three submits
analyze_Submit ==
    /\ pc = "submit"
    /\ task' = [s \in Services |-> "running"]
    /\ pc' = "join"
    /\ UNCHANGED <<orch, cache, nreq, req, proc, path, results, returned, hist, cl, race>>

\* fast_orchestrator.py _process_csv_fast lines 227-246: decode, local analysis, submits
Fast_process_csv_fast_Submit ==
    /\ pc = "csv"
    /\ proc' = [proc EXCEPT !.content = Decode(@), !.local_ok = analyze_csv_locally(proc.content)]
    /\ task' = [s \in Services |-> "running"]
    /\ pc' = "join"
    /\ UNCHANGED <<orch, cache, nreq, req, path, results, returned, hist, cl, race>>

\* the keys in the order of submission
SubmitOrder == <<"summary", "recommendations", "visuals">>

\* faulty variant: the loop files the n-th completed future under the n-th key
TaskDone_Positional(s, result, calledFn, raisedFn) ==
    /\ pc = "join"
    /\ task[s] = "running"
    /\ task' = [task EXCEPT ![s] = "done"]
    /\ results' = (SubmitOrder[Cardinality(DOMAIN results) + 1] :> result) @@ results
    /\ hist' = [hist EXCEPT !.called = IF calledFn THEN @ \cup {s} ELSE @,
                            !.raised = IF raisedFn THEN @ \cup {s} ELSE @]
    /\ UNCHANGED <<orch, cache, nreq, pc, req, proc, path, returned, cl, race>>

\* the future of s completes and the as_completed loop takes it:
\* results[service_name] = future.result()
TaskDone(s, result, calledFn, raisedFn) ==
    /\ pc = "join"
    /\ task[s] = "running"
    /\ task' = [task EXCEPT ![s] = "done"]
    /\ results' = (s :> result) @@ results
    /\ hist' = [hist EXCEPT !.called = IF calledFn THEN @ \cup {s} ELSE @,
                            !.raised = IF raisedFn THEN @ \cup {s} ELSE @]
    /\ UNCHANGED <<orch, cache, nreq, pc, req, proc, path, returned, cl, race>>

\* a worker of IntelligenceOrchestrator runs its task to the end
Std_Task(s) ==
    /\ orch = "std"
    /\ \E st \in RwrRuns :
          TaskDone(s, Std_RunService(s, proc.content, proc.type, st), TRUE,
                   st.status # "returned")

\* a worker of FastIntelligenceOrchestrator runs its task to the end (parallel path)
Fast_Task(s) ==
    /\ orch = "fast"
    /\ path = "parallel"
    /\ \E out \in FnOutcomes :
          TaskDone(s, Fast_RunService(s, proc.content, proc.type, out), TRUE, out # "ok")

\* a worker of FastIntelligenceOrchestrator runs its task to the end (CSV path)
FastCsv_Task(s) ==
    /\ orch = "fast"
    /\ path = "csv"
    /\ \E out \in IF proc.local_ok THEN {"ok"} ELSE FnOutcomes :
          TaskDone(s, Fast_RunServiceFast(s, proc.content, proc.local_ok, out),
                   ~proc.local_ok, out # "ok")

\* faulty variant: the loop waits for a fourth result that no task delivers
AllJoined_WaitsForError(res) == DOMAIN res = Services \cup {"error"}

\* faulty variant: the loop is left after the first future
AllJoined_Early(res) == DOMAIN res # {}

\* the as_completed loop has handed over every future
AllJoined(res) == DOMAIN res = Services

\* orchestrator.py lines 155-156
Std_analyze_Store ==
    /\ orch = "std"
    /\ pc = "join"
    /\ AllJoined(results)
    /\ cache' = cache_set(cache, proc.key, results)
    /\ hist' = [hist EXCEPT !.writes = @ + 1]
    /\ pc' = "ret"
    /\ UNCHANGED <<orch, nreq, req, proc, path, task, results, returned, cl, race>>

\* faulty variant: the results are saved whatever use_cache says
Fast_analyze_Store_Always ==
    /\ orch = "fast"
    /\ pc = "join"
    /\ AllJoined(results)
    /\ \E outcome \in WriteOutcomes :
          /\ cache' = _save_to_cache(cache, proc.key, results, outcome)
          /\ hist' = [hist EXCEPT !.writes = @ + 1, !.write_failed = outcome # "ok"]
    /\ pc' = "ret"
    /\ UNCHANGED <<orch, nreq, req, proc, path, task, results, returned, cl, race>>

\* fast_orchestrator.py lines 179-181 and 205-207
Fast_analyze_Store ==
    /\ orch = "fast"
    /\ pc = "join"
    /\ AllJoined(results)
    /\ IF req.use_cache
       THEN \E outcome \in WriteOutcomes :
               /\ cache' = _save_to_cache(cache, proc.key, results, outcome)
               /\ hist' = [hist EXCEPT !.writes = @ + 1, !.write_failed = outcome # "ok"]
       ELSE UNCHANGED <<cache, hist>>
    /\ pc' = "ret"
    /\ UNCHANGED <<orch, nreq, req, proc, path, task, results, returned, cl, race>>

\* faulty variant: the failure of the cache write is not caught in _save_to_cache
\* and ends the request in the outer handler of analyze
analyze_Return_WriteRaises ==
    /\ pc = "ret"
    /\ returned' = IF hist.write_failed
                   THEN ErrorMap(ServiceResult_Failure(<<"Orchestration error: ">>))
                   ELSE results
    /\ pc' = "done"
    /\ UNCHANGED <<orch, cache, nreq, req, proc, path, task, results, hist, cl, race>>

\* return results
analyze_Return ==
    /\ pc = "ret"
    /\ returned' = results
    /\ pc' = "done"
    /\ UNCHANGED <<orch, cache, nreq, req, proc, path, task, results, hist, cl, race>>

Next ==
    \/ analyze_Call
    \/ Std_analyze_Stage1
    \/ Fast_analyze_Stage1
    \/ analyze_Submit
    \/ Fast_process_csv_fast_Submit
    \/ \E s \in Services : Std_Task(s)
    \/ \E s \in Services : Fast_Task(s)
    \/ \E s \in Services : FastCsv_Task(s)
    \/ Std_analyze_Store
    \/ Fast_analyze_Store
    \/ analyze_Return

Spec == Init /\ [][Next]_vars

\* the steps of a request that is under way: everything but the caller's
\* next call of analyze
Running ==
    \/ Std_analyze_Stage1
    \/ Fast_analyze_Stage1
    \/ analyze_Submit
    \/ Fast_process_csv_fast_Submit
    \/ \E s \in Services : Std_Task(s)
    \/ \E s \in Services : Fast_Task(s)
    \/ \E s \in Services : FastCsv_Task(s)
    \/ Std_analyze_Store
    \/ Fast_analyze_Store
    \/ analyze_Return

\* the calls of analyze that are followed to their end
MaxFairRequests == 1

FairCall ==
    /\ nreq < MaxFairRequests
    /\ analyze_Call

NextFair ==
    \/ FairCall
    \/ Running

\* every download attempt and every model call returns or raises, and the
\* executor runs every submitted task: a step that can be taken is taken
FairSpec == Init /\ [][NextFair]_vars /\ WF_vars(Running)

\* -------------------------------------------------- Spec: properties

NoTaskSpawned == \A s \in Services : task[s] = "none"

NoInput == req.file_url = None /\ req.content = NoContent

BothInputs == req.file_url # None /\ req.content # NoContent

\* analyze has returned an error-only map and has touched nothing on the way
RejectedUntouched ==
    /\ pc = "done"
    /\ DOMAIN returned = {"error"}
    /\ ~returned["error"].success
    /\ hist.downloads = 0
    /\ NoTaskSpawned
    /\ hist.called = {}
    /\ hist.writes = 0

\* the ServiceOutcome invariant of one outcome
Coherent(r) ==
    /\ r.success <=> r.data # NoData
    /\ r.success <=> r.error_message = NoMsg

\* what the cache holds after a successful write of map
StoredForm(map) ==
    IF orch = "std" THEN ValidEntry(map)
    ELSE ValidEntry([k \in DOMAIN map |-> ToDict(map[k])])

\* C1: in the parallel path, when exactly one of the three services raises,
\* analyze returns all three keys, the raising service's entry is a failed
\* outcome and the other two are the succeeded outcomes, with the payloads, of
\* a run in which all three succeed.
C1_PartialFailureIsolated ==
    (pc = "done" /\ path = "parallel" /\ Cardinality(hist.raised) = 1) =>
        /\ DOMAIN returned = Services
        /\ \A s \in Services :
              IF s \in hist.raised
              THEN ~returned[s].success
              ELSE returned[s] =
                      ServiceResult_Success(ModelPayload(s, proc.content, proc.type))

C1_Witness ==
    /\ pc = "done"
    /\ path = "parallel"
    /\ Cardinality(hist.raised) = 1
    /\ Cardinality({s \in Services : returned[s].success}) = 2

\* C2: whatever the download, the classification, the services and the cache
\* do, analyze returns a map whose only key is error or a map with exactly the
\* keys summary, recommendations and visuals.
C2_ErrorOrAllThree ==
    pc = "done" => (DOMAIN returned = {"error"} \/ DOMAIN returned = Services)

C2_Witness ==
    /\ pc = "done"
    /\ DOMAIN returned = {"error"}
    /\ hist.downloads > 0

\* C3: every outcome of every returned map (fresh, cached, or the error entry)
\* has success true iff data is non-null iff error_message is null.
C3_OutcomesCoherent ==
    pc = "done" => \A k \in DOMAIN returned : Coherent(returned[k])

C3_Witness ==
    /\ pc = "done"
    /\ path = "hit"
    /\ \E k \in DOMAIN returned : ~returned[k].success
    /\ \E k \in DOMAIN returned : returned[k].success

C5_HitShortCircuits ==
    [][(/\ pc = "stage1"
        /\ pc' # "stage1"
        /\ req.use_cache
        /\ proc'.key \in DOMAIN cache
        /\ cache[proc'.key].state = "valid")
       => (/\ pc' = "done"
           /\ returned' = cache[proc'.key].value
           /\ NoTaskSpawned'
           /\ hist'.called = {}
           /\ cache' = cache)]_vars

C5_Witness ==
    /\ pc = "done"
    /\ path = "hit"
    /\ req.use_cache
    /\ returned = cache[proc.key].value
    /\ hist.called = {}

\* C6: the cache lookup is made while no service task is spawned and is over
\* when the first one is spawned; the cache is written only when all three
\* tasks have completed and their outcomes are in the result map.
C6_LookupSpawnWriteOrder ==
    [][/\ hist'.lookups > hist.lookups => (NoTaskSpawned /\ NoTaskSpawned')
       /\ (NoTaskSpawned /\ ~NoTaskSpawned') =>
             (hist'.lookups = hist.lookups /\ (req.use_cache => hist.lookups = 1))
       /\ (hist'.writes > hist.writes \/ cache' # cache) =>
             (/\ \A s \in Services : task[s] = "done"
              /\ DOMAIN results = Services)]_vars

C6_Witness ==
    /\ pc = "ret"
    /\ hist.lookups = 1
    /\ hist.writes = 1
    /\ \A s \in Services : task[s] = "done"

\* C7 (as the code has it): after a run with the cache enabled in which all
\* three services succeed, the assembled map is in the cache under the request's
\* fingerprint before analyze returns, unless the write failed (a failure that
\* FastIntelligenceOrchestrator swallows).
C7_SuccessStoredUnlessWriteFails ==
    (/\ pc \in {"ret", "done"}
     /\ path \in {"parallel", "csv"}
     /\ req.use_cache
     /\ \A s \in Services : results[s].success
     /\ ~hist.write_failed)
    => (proc.key \in DOMAIN cache /\ cache[proc.key] = StoredForm(results))

C7_Witness ==
    /\ pc = "done"
    /\ path \in {"parallel", "csv"}
    /\ req.use_cache
    /\ \A s \in Services : returned[s].success
    /\ ~hist.write_failed
    /\ cache[proc.key] = StoredForm(returned)

\* C7 (as claimed): after a run with the cache enabled in which all three
\* services succeed, the assembled map is in the cache under the request's
\* fingerprint before analyze returns.
C7_Claim ==
    (/\ pc \in {"ret", "done"}
     /\ path \in {"parallel", "csv"}
     /\ req.use_cache
     /\ \A s \in Services : results[s].success)
    => (proc.key \in DOMAIN cache /\ cache[proc.key] = StoredForm(results))

\* ---------------------------------------------------- SpecCaller: actions
(* cl.kind names the caller under study:                                   *)
(*   "llm"        llm_client.generate_content, the model mocked            *)
(*   "fastgc"     fast_llm_client.generate_content (cache off), the model  *)
(*                mocked                                                   *)
(*   "rwr"        IntelligenceOrchestrator._run_with_retry, fn mocked      *)
(*   "std_task"   IntelligenceOrchestrator._run_summary_service: the loop  *)
(*                of _run_with_retry around SummaryService.generate_summary*)
(*                around llm_client.generate_content, the model mocked     *)
(*   "fast_task"  FastIntelligenceOrchestrator._run_summary_service around *)
(*                generate_summary around llm_client.generate_content      *)
(*   "download"   IntelligenceOrchestrator._download_with_retry, the       *)
(*                server mocked; its loop state is cl.dl                   *)
(*   "fast_download"  FastIntelligenceOrchestrator._download_file, the     *)
(*                server mocked; its state is cl.dl                        *)
(* cl.calls counts the invocations of the mocked unit, cl.sleeps lists the *)
(* time.sleep durations in order, cl.last is the latest answer of the      *)
(* mocked unit, cl.slept the number of sleeps that followed that answer,   *)
(* cl.outs the first answers of the mocked unit (single callers only), and *)
(* cl.steady that every answer of the model so far was an error with one   *)
(* of the transient markers (task kinds only).                             *)

CallerKinds == {"llm", "fastgc", "rwr", "std_task", "fast_task", "download", "fast_download"}

ModelOutcomes == {"ok"} \cup Messages

LogLimit == 3

NewSleeps(old, new) == SubSeq(new.sleeps, Len(old.sleeps) + 1, Len(new.sleeps))

Logged(outs, out) == IF Len(outs) < LogLimit THEN Append(outs, out) ELSE outs

InitCaller ==
    /\ orch = "std"
    /\ cache = <<>>
    /\ nreq = 0
    /\ pc = "idle"
    /\ req = InitReq
    /\ proc = InitProc
    /\ path = None
    /\ task = [s \in Services |-> "none"]
    /\ results = EmptyMap
    /\ returned = EmptyMap
    /\ hist = InitHist
    /\ cl \in {[InitCl EXCEPT !.kind = k] : k \in CallerKinds}
    /\ race = InitRace

orchVars == <<orch, cache, nreq, pc, req, proc, path, task, results, returned, hist, race>>

\* the markers of a transient condition: overloaded, unavailable, rate limit,
\* timeout, 503 (llm_client.py line 56 has them all, in lower case)
TransientAnswer(out) == out # "ok" /\ llm_IsTransient(out)

\* llm_client.generate_content invokes the model once
llm_generate_content_Attempt ==
    /\ cl.kind = "llm"
    /\ cl.gc.status = "loop"
    /\ \E out \in ModelOutcomes :
          LET g == llm_generate_content_Iter(cl.gc, out)
          IN  cl' = [cl EXCEPT !.gc = g, !.calls = @ + 1, !.last = out,
                               !.sleeps = @ \o NewSleeps(cl.gc, g),
                               !.slept = Len(NewSleeps(cl.gc, g)),
                               !.outs = Logged(@, out)]
    /\ UNCHANGED orchVars

\* fast_llm_client.generate_content invokes the model once
fast_generate_content_Attempt ==
    /\ cl.kind = "fastgc"
    /\ cl.gc.status = "loop"
    /\ \E out \in ModelOutcomes :
          LET g == fast_generate_content_Iter(cl.gc, out)
          IN  cl' = [cl EXCEPT !.gc = g, !.calls = @ + 1, !.last = out,
                               !.sleeps = @ \o NewSleeps(cl.gc, g),
                               !.slept = Len(NewSleeps(cl.gc, g)),
                               !.outs = Logged(@, out)]
    /\ UNCHANGED orchVars

\* _run_with_retry invokes fn once
run_with_retry_Attempt ==
    /\ cl.kind = "rwr"
    /\ cl.rwr.status = "loop"
    /\ \E out \in ModelOutcomes, jitter \in Jitters :
          LET r == _run_with_retry_Iter(cl.rwr, out, jitter)
          IN  cl' = [cl EXCEPT !.rwr = r, !.calls = @ + 1, !.last = out,
                               !.sleeps = @ \o NewSleeps(cl.rwr, r),
                               !.slept = Len(NewSleeps(cl.rwr, r)),
                               !.outs = Logged(@, out)]
    /\ UNCHANGED orchVars

\* what the service function does when generate_content ends in state g:
\* it returns its payload, raises what generate_content raised, or is still inside
FnOutcome(g) ==
    IF g.status = "returned" THEN "ok"
    ELSE IF g.status = "raised" THEN g.last_error
    ELSE "pending"

\* _run_summary_service of IntelligenceOrchestrator: the model is invoked once
StdTask_Attempt ==
    /\ cl.kind = "std_task"
    /\ cl.rwr.status = "loop"
    /\ \E out \in ModelOutcomes, jitter \in Jitters :
          LET g == llm_generate_content_Iter(cl.gc, out)
              r == IF FnOutcome(g) = "pending" THEN cl.rwr
                   ELSE _run_with_retry_Iter(cl.rwr, FnOutcome(g), jitter)
          IN  cl' = [cl EXCEPT !.gc = IF g.status = "raised" /\ r.status = "loop"
                                      THEN GcStart ELSE g,
                               !.rwr = r, !.calls = @ + 1, !.last = out,
                               !.sleeps = @ \o NewSleeps(cl.gc, g) \o NewSleeps(cl.rwr, r),
                               !.slept = Len(NewSleeps(cl.gc, g)) + Len(NewSleeps(cl.rwr, r)),
                               !.steady = @ /\ TransientAnswer(out)]
    /\ UNCHANGED orchVars

\* _run_summary_service of FastIntelligenceOrchestrator: the model is invoked once
FastTask_Attempt ==
    /\ cl.kind = "fast_task"
    /\ cl.gc.status = "loop"
    /\ \E out \in ModelOutcomes :
          LET g == llm_generate_content_Iter(cl.gc, out)
          IN  cl' = [cl EXCEPT !.gc = g, !.calls = @ + 1, !.last = out,
                               !.sleeps = @ \o NewSleeps(cl.gc, g),
                               !.slept = Len(NewSleeps(cl.gc, g)),
                               !.steady = @ /\ TransientAnswer(out)]
    /\ UNCHANGED orchVars

\* orchestrator.py _download_with_retry: one requests.get and what follows it
download_with_retry_Attempt ==
    /\ cl.kind = "download"
    /\ cl.dl.status = "loop"
    /\ \E out \in FetchOutcomes :
          cl' = [cl EXCEPT !.dl = _download_with_retry_Iter(cl.dl, out),
                           !.outs = Logged(@, out)]
    /\ UNCHANGED orchVars

\* fast_orchestrator.py _download_file: its one requests.get
download_file_Attempt ==
    /\ cl.kind = "fast_download"
    /\ cl.dl.status = "loop"
    /\ \E out \in FetchOutcomes :
          LET d == _download_file(out)
          IN  cl' = [cl EXCEPT !.dl = [@ EXCEPT !.status = d.status,
                                                !.requests = d.requests,
                                                !.error = d.error],
                               !.outs = Logged(@, out)]
    /\ UNCHANGED orchVars

NextCaller ==
    \/ download_with_retry_Attempt
    \/ download_file_Attempt
    \/ llm_generate_content_Attempt
    \/ fast_generate_content_Attempt
    \/ run_with_retry_Attempt
    \/ StdTask_Attempt
    \/ FastTask_Attempt

SpecCaller == InitCaller /\ [][NextCaller]_vars

\* the caller under study has returned or raised
CallerEnded ==
    CASE cl.kind \in {"llm", "fastgc", "fast_task"} -> cl.gc.status # "loop"
      [] cl.kind \in {"rwr", "std_task"} -> cl.rwr.status # "loop"
      [] cl.kind \in {"download", "fast_download"} -> cl.dl.status # "loop"
      [] OTHER -> FALSE

\* the ServiceResult a task returns once ended (_run_with_retry and the task kinds)
TaskResult ==
    IF cl.kind \in {"rwr", "std_task"}
    THEN _run_with_retry_Result("summary", cl.rwr, ModelPayload("summary", Txt, "text/plain"))
    ELSE Fast_RunService("summary", Txt, "text/plain", FnOutcome(cl.gc))

\* ---------------------------------------------------- SpecClient: actions
(* fast_llm_client.generate_content with its cache, called again and again *)
(* by one thread; the state is cl.fc: pc, the cache files (store), the     *)
(* arguments, key and response of the current invocation, where the        *)
(* response came from (served), the retry loop as it ended (gc), the       *)
(* outcome of the cache write (write), and the key of the invocation       *)
(* before when that one ended with the sentinel (prev).                    *)

MaxInvocations == 2

InitClient ==
    /\ orch = "fast"
    /\ cache = <<>>
    /\ nreq = 0
    /\ pc = "idle"
    /\ req = InitReq
    /\ proc = InitProc
    /\ path = None
    /\ task = [s \in Services |-> "none"]
    /\ results = EmptyMap
    /\ returned = EmptyMap
    /\ hist = InitHist
    /\ cl = [InitCl EXCEPT !.kind = "fast_client"]
    /\ race = InitRace

\* generate_content(model, contents, config, use_cache) is called
fast_generate_content_Call ==
    /\ cl.kind = "fast_client"
    /\ cl.fc.pc \in {"idle", "done"}
    /\ cl.fc.ninv < MaxInvocations
    /\ \E m \in Models, p \in Prompts, c \in Configs, uc \in BOOLEAN :
          cl' = [cl EXCEPT !.fc = [InitFc EXCEPT
                    !.pc = "called", !.store = cl.fc.store, !.ninv = cl.fc.ninv + 1,
                    !.prev = IF cl.fc.pc = "done" /\ cl.fc.served = "model"
                                  /\ cl.fc.gc.status # "returned"
                             THEN cl.fc.key ELSE NoCacheKey,
                    !.args = [model |-> m, contents |-> p, config |-> c, use_cache |-> uc]]]
    /\ UNCHANGED orchVars

\* fast_llm_client.py lines 78-92: the cache lookup
fast_generate_content_Lookup ==
    /\ cl.kind = "fast_client"
    /\ cl.fc.pc = "called"
    /\ LET a == cl.fc.args
           cache_key == IF a.use_cache
                        THEN fast_get_cache_key(a.model, a.contents, a.config)
                        ELSE NoCacheKey
           cached == fast_get_cached_response(cl.fc.store, cache_key)
       IN  IF a.use_cache /\ cached # NoResponse
           THEN cl' = [cl EXCEPT !.fc.pc = "done", !.fc.key = cache_key,
                                 !.fc.resp = CachedResponse(cached), !.fc.served = "cache"]
           ELSE cl' = [cl EXCEPT !.fc.pc = "model", !.fc.key = cache_key]
    /\ UNCHANGED orchVars

\* faulty variant: whatever generate_content returns is saved, the sentinel too
fast_generate_content_Loop_SavesAll ==
    /\ cl.kind = "fast_client"
    /\ cl.fc.pc = "model"
    /\ \E g \in FastGcRuns, response \in ModelResponses, outcome \in WriteOutcomes :
          LET saves == cl.fc.args.use_cache /\ cl.fc.key # NoCacheKey
              resp == IF g.status = "returned" THEN response ELSE ErrorResponse(g.last_error)
          IN  /\ ~saves => outcome = "ok"
              /\ g.status # "returned" => response = CHOOSE r \in ModelResponses : TRUE
              /\ cl' = [cl EXCEPT
                    !.fc.pc = "done",
                    !.fc.gc = g,
                    !.fc.served = "model",
                    !.fc.resp = resp,
                    !.fc.write = IF saves THEN outcome ELSE None,
                    !.fc.store = IF saves
                                 THEN fast_save_to_cache(@, cl.fc.key,
                                         [text |-> resp.text, parsed |-> resp.parsed],
                                         outcome)
                                 ELSE @]
    /\ UNCHANGED orchVars

\* fast_llm_client.py lines 94-130: the retry loop runs to its end, the response
\* is saved (if the model answered and the cache is in use) and returned
fast_generate_content_Loop ==
    /\ cl.kind = "fast_client"
    /\ cl.fc.pc = "model"
    /\ \E g \in FastGcRuns, response \in ModelResponses, outcome \in WriteOutcomes :
          LET saves == g.status = "returned" /\ cl.fc.args.use_cache
                          /\ cl.fc.key # NoCacheKey
          IN  /\ ~saves => outcome = "ok"
              /\ g.status # "returned" => response = CHOOSE r \in ModelResponses : TRUE
              /\ cl' = [cl EXCEPT
                    !.fc.pc = "done",
                    !.fc.gc = g,
                    !.fc.served = "model",
                    !.fc.resp = IF g.status = "returned" THEN response
                                ELSE ErrorResponse(g.last_error),
                    !.fc.write = IF saves THEN outcome ELSE None,
                    !.fc.store = IF saves
                                 THEN fast_save_to_cache(@, cl.fc.key,
                                         [text |-> response.text, parsed |-> response.parsed],
                                         outcome)
                                 ELSE @]
    /\ UNCHANGED orchVars

NextClient ==
    \/ fast_generate_content_Call
    \/ fast_generate_content_Lookup
    \/ fast_generate_content_Loop

SpecClient == InitClient /\ [][NextClient]_vars

\* ------------------------------------------------------ SpecRace: actions

raceFrame == <<orch, cache, nreq, pc, req, proc, path, task, results, returned, hist, cl>>

Lens == [i \in Reqs |-> race.rq[i].len]

InitRaceSpec ==
    /\ orch \in {"std", "fast"}
    /\ cache = <<>>
    /\ nreq = 0
    /\ pc = "idle"
    /\ req = InitReq
    /\ proc = InitProc
    /\ path = None
    /\ task = [s \in Services |-> "none"]
    /\ results = EmptyMap
    /\ returned = EmptyMap
    /\ hist = InitHist
    /\ cl = InitCl
    /\ race = InitRace

\* request i consults the cache: orchestrator.py line 132, fast_orchestrator.py
\* lines 144-149 and 165-169
Race_Lookup(i) ==
    /\ race.rq[i].pc = "lookup"
    /\ \E r \in Load(race.file, Lens) :
          race' = [race EXCEPT !.seen = @ \cup {r},
                               !.rq[i].got = r,
                               !.rq[i].pc = IF r = "none" THEN "compute" ELSE "done"]
    /\ UNCHANGED raceFrame

\* request i has joined its three tasks; its map serializes to len blocks
Race_Assemble(i) ==
    /\ race.rq[i].pc = "compute"
    /\ \E len \in 1..MaxBlocks :
          race' = [race EXCEPT !.rq[i].len = len, !.rq[i].got = MapOf(i),
                               !.rq[i].pc = IF orch = "std" THEN "assign" ELSE "open"]
    /\ UNCHANGED raceFrame

\* orchestrator.py line 156: self.cache[cache_key] = results
Race_Assign(i) ==
    /\ orch = "std"
    /\ race.rq[i].pc = "assign"
    /\ race' = [race EXCEPT !.file = FileOf(i, race.rq[i].len), !.last = i,
                            !.rq[i].pc = "done"]
    /\ UNCHANGED raceFrame

\* fast_orchestrator.py line 69: open(cache_path, 'w') truncates the file
Race_Open(i) ==
    /\ orch = "fast"
    /\ race.rq[i].pc = "open"
    /\ race' = [race EXCEPT !.file = <<>>, !.rq[i].pos = 0, !.rq[i].pc = "write"]
    /\ UNCHANGED raceFrame

\* fast_orchestrator.py lines 69-70: one flush of json.dump's output; the last
\* one is that of the close at the end of the with block
Race_Flush(i) ==
    /\ orch = "fast"
    /\ race.rq[i].pc = "write"
    /\ LET r == race.rq[i]
           done == r.pos + 1 = r.len
       IN  race' = [race EXCEPT !.file = WriteAt(@, r.pos, Block(i, r.pos + 1)),
                                !.rq[i].pos = r.pos + 1,
                                !.rq[i].pc = IF done THEN "done" ELSE "write",
                                !.last = IF done THEN i ELSE @]
    /\ UNCHANGED raceFrame

\* the lookup of any later request, during or after the race
Race_Read ==
    /\ \E r \in Load(race.file, Lens) : race' = [race EXCEPT !.seen = @ \cup {r}]
    /\ UNCHANGED raceFrame

NextRace ==
    \/ \E i \in Reqs : Race_Lookup(i)
    \/ \E i \in Reqs : Race_Assemble(i)
    \/ \E i \in Reqs : Race_Assign(i)
    \/ \E i \in Reqs : Race_Open(i)
    \/ \E i \in Reqs : Race_Flush(i)
    \/ Race_Read

SpecRace == InitRaceSpec /\ [][NextRace]_vars

\* --------------------------------------------------- SpecService: actions
(* One service function at a time, the model mocked; the state is cl.sv:   *)
(* calls lists the calls of the model ("single", "consolidate" and         *)
(* "fallback" go to MODEL_NAME, "chunk" to LIGHT_MODEL), norm is what the  *)
(* normalizer made of the last answer, resp the answer to the last call of *)
(* the full model, out what the service returned or that it raised, and    *)
(* extractable tells that the answer to some chunk held a JSON list with   *)
(* an item.                                                                *)

MaxArgs == {1, default_max}

InitService ==
    /\ orch = "std"
    /\ cache = <<>>
    /\ nreq = 0
    /\ pc = "idle"
    /\ req = InitReq
    /\ proc = InitProc
    /\ path = None
    /\ task = [s \in Services |-> "none"]
    /\ results = EmptyMap
    /\ returned = EmptyMap
    /\ hist = InitHist
    /\ cl = [InitCl EXCEPT !.kind = "service"]
    /\ race = InitRace

\* a task calls the service function with str or bytes content
Service_Call ==
    /\ cl.kind = "service"
    /\ cl.sv.pc = "idle"
    /\ \E s \in Services, max \in MaxArgs, big \in BOOLEAN, n \in 0..MaxChunks :
          /\ ~big => n = 0
          /\ cl' = [cl EXCEPT !.sv = [InitSv EXCEPT !.pc = IF big THEN "chunks" ELSE "final",
                                                    !.svc = s, !.big = big, !.max = max,
                                                    !.nchunks = n]]
    /\ UNCHANGED orchVars

\* one pass of the loop over the chunks: the light model answers, the partial
\* items are taken
Service_Chunk ==
    /\ cl.kind = "service"
    /\ cl.sv.pc = "chunks"
    /\ cl.sv.i < Min(cl.sv.nchunks, ChunkCap(cl.sv.svc))
    /\ \E c \in {<<ChunkPartial(cl.sv.svc, response),
                      IF cl.sv.svc = "summary" THEN NoNorm
                      ELSE Normalize(cl.sv.svc, response, top_k)>> : response \in Responses} :
          LET p == c[1]
              norm == c[2]
          IN  cl' = [cl EXCEPT !.sv.i = @ + 1,
                               !.sv.calls = Append(@, "chunk"),
                               !.sv.norm = norm,
                               !.sv.partials = @ + p.add,
                               !.sv.extractable =
                                    @ \/ (norm.status = "returned" /\ norm.src = "json"
                                             /\ norm.n > 0),
                               !.sv.pc = IF p.raised THEN "done" ELSE "chunks",
                               !.sv.out = IF p.raised THEN norm ELSE @]
    /\ UNCHANGED orchVars

\* the chunks are done and their entries are returned as they are
\* (visuals.py lines 85-86)
Service_Direct ==
    /\ cl.kind = "service"
    /\ cl.sv.pc = "chunks"
    /\ cl.sv.i = Min(cl.sv.nchunks, ChunkCap(cl.sv.svc))
    /\ AfterChunks(cl.sv.svc, cl.sv.partials) = "direct"
    /\ cl' = [cl EXCEPT !.sv.pc = "done",
                         !.sv.out = NormList(Min(cl.sv.partials, cl.sv.max), "chart",
                                             "chunks", 0)]
    /\ UNCHANGED orchVars

\* the full model is called once (alone, to consolidate, or on the prefix of
\* the text) and its answer is normalized
Service_Final ==
    /\ cl.kind = "service"
    /\ \/ cl.sv.pc = "final"
       \/ /\ cl.sv.pc = "chunks"
          /\ cl.sv.i = Min(cl.sv.nchunks, ChunkCap(cl.sv.svc))
          /\ AfterChunks(cl.sv.svc, cl.sv.partials) # "direct"
    /\ \E response \in Responses :
          LET norm == Normalize(cl.sv.svc, response, cl.sv.max)
              call == IF cl.sv.pc = "final" THEN "single"
                      ELSE AfterChunks(cl.sv.svc, cl.sv.partials)
          IN  cl' = [cl EXCEPT !.sv.pc = "done",
                               !.sv.calls = Append(@, call),
                               !.sv.resp = response,
                               !.sv.norm = norm,
                               !.sv.out = norm]
    /\ UNCHANGED orchVars

NextService ==
    \/ Service_Call
    \/ Service_Chunk
    \/ Service_Direct
    \/ Service_Final

SpecService == InitService /\ [][NextService]_vars

\* ------------------------------------------------------- SpecCsv: actions
(* cl.kind = "csv": FastIntelligenceOrchestrator.analyze on the bytes of a *)
(* CSV text with no MIME hint, cache off.  cl.kind = "csv_local": a call   *)
(* of analyze_csv_locally on a CSV text.  The state is cl.csv; model holds *)
(* the services that went to the model service for want of a profile.      *)

InitCsvSpec ==
    /\ orch = "fast"
    /\ cache = <<>>
    /\ nreq = 0
    /\ pc = "idle"
    /\ req = InitReq
    /\ proc = InitProc
    /\ path = None
    /\ task = [s \in Services |-> "none"]
    /\ results = EmptyMap
    /\ returned = EmptyMap
    /\ hist = InitHist
    /\ \E kind \in {"csv", "csv_local"} : cl = [InitCl EXCEPT !.kind = kind]
    /\ race = InitRace

\* fast_llm_client.py analyze_csv_locally lines 135-201, called on a text
Csv_Direct ==
    /\ cl.kind = "csv_local"
    /\ cl.csv.pc = "idle"
    /\ \E table \in Tables :
          cl' = [cl EXCEPT !.csv.table = table,
                           !.csv.profile = csv_profile(table),
                           !.csv.pc = "done"]
    /\ UNCHANGED orchVars

\* fast_orchestrator.py analyze lines 171-175: the classification of the bytes
Csv_Classify ==
    /\ cl.kind = "csv"
    /\ cl.csv.pc = "idle"
    /\ \E table \in Tables :
          LET content == TableBytes(table)
              detected_mime_type == _detect_mime_type(content, None)
              fast == detected_mime_type = "text/csv" /\ _is_csv_content(content)
          IN  cl' = [cl EXCEPT !.csv.table = table,
                               !.csv.path = IF fast THEN "csv" ELSE "parallel",
                               !.csv.pc = IF fast THEN "csv" ELSE "done"]
    /\ UNCHANGED orchVars

\* fast_orchestrator.py _process_csv_fast lines 227-236: decode, analyze_csv_locally
Csv_Local ==
    /\ cl.kind = "csv"
    /\ cl.csv.pc = "csv"
    /\ cl' = [cl EXCEPT !.csv.profile = csv_profile(cl.csv.table), !.csv.pc = "tasks"]
    /\ UNCHANGED orchVars

\* the three tasks of _process_csv_fast, in any order; with
\* local_analysis.get('error') each calls its model service instead
\* (fast_orchestrator.py lines 365, 416, 501)
Csv_Summary ==
    /\ cl.kind = "csv"
    /\ cl.csv.pc = "tasks"
    /\ "summary" \notin cl.csv.ran
    /\ cl' = [cl EXCEPT !.csv.summary = IF cl.csv.profile.error THEN NoSummary
                                          ELSE fast_summary(cl.csv.profile),
                         !.csv.model = IF cl.csv.profile.error THEN @ \cup {"summary"} ELSE @,
                         !.csv.ran = @ \cup {"summary"}]
    /\ UNCHANGED orchVars

Csv_Recommendations ==
    /\ cl.kind = "csv"
    /\ cl.csv.pc = "tasks"
    /\ "recommendations" \notin cl.csv.ran
    /\ cl' = [cl EXCEPT !.csv.recommendations = IF cl.csv.profile.error THEN 0
                                          ELSE fast_recommendations(cl.csv.profile),
                         !.csv.list = IF cl.csv.profile.error THEN <<>>
                                      ELSE fast_recommendation_list(cl.csv.profile),
                         !.csv.model = IF cl.csv.profile.error THEN @ \cup {"recommendations"} ELSE @,
                         !.csv.ran = @ \cup {"recommendations"}]
    /\ UNCHANGED orchVars

Csv_Visuals ==
    /\ cl.kind = "csv"
    /\ cl.csv.pc = "tasks"
    /\ "visuals" \notin cl.csv.ran
    /\ cl' = [cl EXCEPT !.csv.visuals = IF cl.csv.profile.error THEN <<>>
                                          ELSE fast_visuals(cl.csv.profile),
                         !.csv.model = IF cl.csv.profile.error THEN @ \cup {"visuals"} ELSE @,
                         !.csv.ran = @ \cup {"visuals"}]
    /\ UNCHANGED orchVars

\* the as_completed loop has taken the three results: return results
Csv_Return ==
    /\ cl.kind = "csv"
    /\ cl.csv.pc = "tasks"
    /\ cl.csv.ran = Services
    /\ cl' = [cl EXCEPT !.csv.pc = "done"]
    /\ UNCHANGED orchVars

NextCsv ==
    \/ Csv_Direct
    \/ Csv_Classify
    \/ Csv_Local
    \/ Csv_Summary
    \/ Csv_Recommendations
    \/ Csv_Visuals
    \/ Csv_Return

SpecCsv == InitCsvSpec /\ [][NextCsv]_vars

\* -------------------------------------------------- SpecClassify: actions
(* cl.kind = "classify": bytes without a MIME hint are given to the        *)
(* classifier of one of the two orchestrators.                             *)

InitClassify ==
    /\ orch \in {"std", "fast"}
    /\ cache = <<>>
    /\ nreq = 0
    /\ pc = "idle"
    /\ req = InitReq
    /\ proc = InitProc
    /\ path = None
    /\ task = [s \in Services |-> "none"]
    /\ results = EmptyMap
    /\ returned = EmptyMap
    /\ hist = InitHist
    /\ \E u \in BOOLEAN, l \in CommaRows(MaxLines), m \in {"none", "pdf", "zip"} :
          cl = [InitCl EXCEPT !.kind = "classify", !.cf.lines = l,
                              !.cf.sample = Sniffed(u, l, m)]
    /\ race = InitRace

\* orchestrator.py analyze line 121: file_processor.process_file(content, mime_type)
Classify_Std ==
    /\ cl.kind = "classify"
    /\ orch = "std"
    /\ cl.cf.pc = "idle"
    /\ cl' = [cl EXCEPT !.cf.type = process_file(cl.cf.sample, None).type,
                         !.cf.pc = "done"]
    /\ UNCHANGED orchVars

\* fast_orchestrator.py analyze line 172: self._detect_mime_type(content, mime_type)
Classify_Fast ==
    /\ cl.kind = "classify"
    /\ orch = "fast"
    /\ cl.cf.pc = "idle"
    /\ cl' = [cl EXCEPT !.cf.type = _detect_mime_type(cl.cf.sample, None),
                         !.cf.pc = "done"]
    /\ UNCHANGED orchVars

NextClassify ==
    \/ Classify_Std
    \/ Classify_Fast

SpecClassify == InitClassify /\ [][NextClassify]_vars

\* -------------------------------------------- SpecCaller: properties

\* the transient conditions: a message carrying one of the markers overloaded,
\* unavailable, rate limit (in either spelling), timeout, 503, in any case
SpecTransient(msg) ==
    Lower(msg) \in {"overloaded", "unavailable", "rate limit", "rate_limit", "timeout", "503"}

SingleCallers == {"llm", "fastgc", "rwr"}

\* C8: one invocation of generate_content calls the model at most 3 times: it
\* goes on to another call only after a transient failure and only before the
\* third call, and a success is always its last call.
C8_AtMostThreeCalls ==
    cl.kind \in {"llm", "fastgc"} =>
        /\ cl.calls <= 3
        /\ Len(cl.outs) = cl.calls
        /\ (cl.gc.status = "loop" /\ cl.calls > 0) =>
              (cl.last # "ok" /\ SpecTransient(cl.last) /\ cl.calls < 3)
        /\ cl.calls = 3 => cl.gc.status # "loop"
        /\ \A i \in 1..Len(cl.outs) :
              cl.outs[i] = "ok" => (i = cl.calls /\ cl.gc.status = "returned")

C8_Witness ==
    /\ cl.kind \in {"llm", "fastgc"}
    /\ cl.calls = 3
    /\ cl.last # "ok"
    /\ SpecTransient(cl.last)
    /\ CallerEnded

\* C9 (as claimed): when the model (for _run_with_retry, the service function)
\* raises a transient-marked error on the first two attempts and succeeds on
\* the third, the caller goes on after each of the two failures, returns the
\* success, and has slept exactly twice, the second time at least as long as
\* the first.
C9_Claim ==
    cl.kind \in SingleCallers =>
        /\ (Len(cl.outs) \in 1..2 /\ \A i \in 1..Len(cl.outs) : SpecTransient(cl.outs[i]))
              => ~CallerEnded
        /\ (/\ Len(cl.outs) = 3
            /\ SpecTransient(cl.outs[1])
            /\ SpecTransient(cl.outs[2])
            /\ cl.outs[3] = "ok")
              => (/\ CallerEnded
                  /\ cl.last = "ok"
                  /\ Len(cl.sleeps) = 2
                  /\ cl.sleeps[2] >= cl.sleeps[1])

\* C10: an exception of the model that is not a transient condition is not
\* retried: the caller ends with that call, no sleep follows it, and a task
\* returns a failed outcome.
C10_NonTransientNotRetried ==
    (cl.calls >= 1 /\ cl.last # "ok" /\ ~SpecTransient(cl.last)) =>
        /\ CallerEnded
        /\ cl.slept = 0
        /\ cl.calls = 1 => cl.sleeps = <<>>
        /\ cl.kind \in {"rwr", "std_task", "fast_task"} =>
              (~TaskResult.success /\ TaskResult.data = NoData
                 /\ TaskResult.error_message # NoMsg)

C10_Witness ==
    /\ cl.kind = "std_task"
    /\ cl.calls = 1
    /\ cl.last = "bad request"
    /\ CallerEnded
    /\ cl.sleeps = <<>>
    /\ ~TaskResult.success

\* C11 (as the code has it): on a non-transient model failure, or after the
\* last attempt failed, fast_llm_client.generate_content returns a sentinel
\* whose text is "Error: " followed by the error and whose parsed payload is
\* null, while llm_client.generate_content raises the last exception.
C11_SentinelOrRaise ==
    (cl.kind \in {"llm", "fastgc"} /\ CallerEnded /\ cl.last # "ok") =>
        IF cl.kind = "fastgc"
        THEN /\ cl.gc.status = "sentinel"
             /\ fast_generate_content_Response(cl.gc).text = <<"Error: ", cl.last>>
             /\ fast_generate_content_Response(cl.gc).parsed = None
        ELSE /\ cl.gc.status = "raised"
             /\ cl.gc.last_error = cl.last

C11_Witness ==
    /\ cl.kind = "fastgc"
    /\ cl.calls = 3
    /\ cl.gc.status = "sentinel"
    /\ fast_generate_content_Response(cl.gc).parsed = None

\* C11 (as claimed): on a non-transient model failure, or after the last
\* attempt failed, the retrying model caller does not raise but returns a
\* sentinel describing the error, with a null parsed payload.
C11_Claim ==
    (cl.kind \in {"llm", "fastgc"} /\ CallerEnded /\ cl.last # "ok") =>
        /\ cl.gc.status = "sentinel"
        /\ fast_generate_content_Response(cl.gc).parsed = None

\* C30 (as claimed): in llm_client.generate_content, in
\* fast_llm_client.generate_content and in _run_with_retry, a failure whose
\* message carries one of the transient markers (overloaded, unavailable,
\* rate limit, timeout, 503) is retried when attempts remain: after such a
\* failure of the first or second attempt the caller has not ended.
C30_Claim ==
    (/\ cl.kind \in SingleCallers
     /\ cl.calls \in 1..2
     /\ cl.last # "ok"
     /\ SpecTransient(cl.last)) =>
        ~CallerEnded

\* C37 (as claimed): within one orchestrated request, a service whose single
\* model call fails with a transient error on every attempt causes at most 3
\* model invocations in total before its failed outcome is produced; the
\* per-service retry of the orchestrator and the retry of the model caller do
\* not multiply.
C37_Claim ==
    (cl.kind \in {"std_task", "fast_task"} /\ cl.steady) => cl.calls <= 3

\* C38 (as claimed): no backoff sleep is performed after the last permitted
\* attempt: a retrying caller (download retry, model-caller retry, per-service
\* retry of the orchestrator) that gives up after its final failed attempt
\* returns or raises without sleeping again, so that a run of n failed
\* attempts performs exactly n - 1 sleeps.
C38_Claim ==
    /\ (cl.kind \in SingleCallers /\ CallerEnded /\ cl.last # "ok") =>
          /\ cl.slept = 0
          /\ Len(cl.sleeps) = cl.calls - 1
    /\ (cl.kind = "download" /\ cl.dl.status = "raised") =>
          Len(cl.dl.sleeps) = cl.dl.requests - 1

\* ------------------------------------------------ SpecClient: properties

\* the key of the current invocation's arguments
ArgsKey(fc) == fast_get_cache_key(fc.args.model, fc.args.contents, fc.args.config)

\* the model answered the current invocation while the cache was in use
AnsweredCaching(fc) ==
    /\ fc.pc = "done"
    /\ fc.served = "model"
    /\ fc.gc.status = "returned"
    /\ fc.args.use_cache

HoldsValid(store, key) == key \in DOMAIN store /\ store[key].state = "valid"

\* C12 (as the code has it): with caching enabled, after a successful model
\* call whose cache write succeeded, {text, parsed} of the response is stored
\* under the call's key; a stored entry is never changed; and an invocation
\* with the cache in use that finds an entry under the key of its model, prompt
\* and config returns the stored text and parsed value without calling the
\* model.  A failed write is swallowed and leaves no loadable entry.
C12_StoredThenServed ==
    [][/\ (AnsweredCaching(cl.fc)' /\ cl.fc'.write = "ok") =>
             (/\ HoldsValid(cl.fc'.store, ArgsKey(cl.fc'))
              /\ cl.fc'.store[ArgsKey(cl.fc')].value = cl.fc'.resp)
       /\ \A k \in DOMAIN cl.fc.store :
             cl.fc.store[k].state = "valid" =>
                (k \in DOMAIN cl.fc'.store /\ cl.fc'.store[k] = cl.fc.store[k])
       /\ (/\ cl.fc.pc = "called"
           /\ cl.fc'.pc # "called"
           /\ cl.fc.args.use_cache
           /\ HoldsValid(cl.fc.store, ArgsKey(cl.fc)))
          => (/\ cl.fc'.pc = "done"
              /\ cl.fc'.served = "cache"
              /\ cl.fc'.resp = cl.fc.store[ArgsKey(cl.fc)].value
              /\ cl.fc'.gc.calls = 0
              /\ cl.fc'.store = cl.fc.store)]_vars

C12_Witness ==
    /\ cl.fc.pc = "done"
    /\ cl.fc.ninv = 2
    /\ cl.fc.served = "cache"
    /\ cl.fc.gc.calls = 0
    /\ cl.fc.resp \in ModelResponses
    /\ cl.fc.resp = cl.fc.store[ArgsKey(cl.fc)].value

\* C12 (as claimed): with caching enabled, after one successful model call the
\* response {text, parsed} is stored under the call's cache key (and later
\* invocations with the same model, prompt and config are served from it).
C12_Claim ==
    AnsweredCaching(cl.fc) =>
        (/\ HoldsValid(cl.fc.store, ArgsKey(cl.fc))
         /\ cl.fc.store[ArgsKey(cl.fc)].value = cl.fc.resp)

\* the invocation has ended with the sentinel: the model never answered
EndedWithSentinel(fc) ==
    /\ fc.pc = "done"
    /\ fc.served = "model"
    /\ fc.gc.status # "returned"

\* C40: the model-call cache never holds an error sentinel: an entry is
\* written only after a model invocation returned successfully, so that a
\* failed call (non-transient error or retries exhausted) leaves the cache as
\* it was, and the next invocation with the same key calls the model again.
C40_NoSentinelCached ==
    /\ [](\A k \in DOMAIN cl.fc.store :
            cl.fc.store[k].state = "valid" => cl.fc.store[k].value \in ModelResponses)
    /\ [][/\ ((cl.fc.pc = "model" /\ EndedWithSentinel(cl.fc'))
                 => (cl.fc'.store = cl.fc.store))
           /\ ((cl.fc'.store # cl.fc.store)
                 => (cl.fc.pc = "model" /\ cl.fc'.gc.status = "returned"))
           /\ ((cl.fc.pc = "called" /\ cl.fc'.pc # "called"
                   /\ cl.fc.prev # NoCacheKey /\ cl.fc.prev = ArgsKey(cl.fc))
                 => (cl.fc'.pc = "model"))]_vars

\* C40 witness: an invocation with the cache in use ended with the sentinel,
\* and the next one, with the same key, has called the model
C40_Witness ==
    /\ cl.kind = "fast_client"
    /\ cl.fc.ninv = 2
    /\ cl.fc.args.use_cache
    /\ cl.fc.prev = ArgsKey(cl.fc)
    /\ cl.fc.pc = "done"
    /\ cl.fc.served = "model"
    /\ cl.fc.gc.calls >= 1

\* ------------------------------------------- Spec: properties (continued)

\* C13: when the cache is in use and holds no entry, or an entry that does not
\* load, under the request's fingerprint, the lookup yields nothing, no error
\* of the cache reaches the caller, and the request goes on to the analysis
\* (or ends with the error of a failed download).
C13_CorruptIsMiss ==
    [][(/\ pc = "stage1"
        /\ pc' # "stage1"
        /\ req.use_cache
        /\ ~NoInput
        /\ ~HoldsValid(cache, proc'.key))
       => (/\ orch = "fast" => _get_cached_result(cache, proc'.key) = EmptyMap
           /\ \/ path' \in {"parallel", "csv"}
              \/ /\ path' = "error"
                 /\ req.file_url # None
                 /\ hist'.downloads >= 1
                 /\ returned'["error"].error_message
                       \in {<<"Failed to download file: ">>, <<"TypeName: ">>})]_vars

C13_Witness ==
    /\ orch = "fast"
    /\ pc \in {"submit", "csv"}
    /\ req.use_cache
    /\ hist.lookups = 1
    /\ proc.key \in DOMAIN cache
    /\ cache[proc.key].state = "corrupt"

\* the outcome of service s as its own run determines it: its payload when it
\* returned, the failed outcome of its orchestrator when it raised
ExpectedOutcome(s) ==
    IF path = "csv"
    THEN IF proc.local_ok THEN ServiceResult_Success(LocalPayload(s, proc.content))
         ELSE IF s \in hist.raised THEN ServiceResult_Failure(<<FastCsvPrefix(s)>>)
         ELSE ServiceResult_Success(ModelPayload(s, proc.content, "text/csv"))
    ELSE IF s \in hist.raised
    THEN IF orch = "std" THEN handle_error(s, None)
         ELSE ServiceResult_Failure(<<FastPrefix(s)>>)
    ELSE ServiceResult_Success(ModelPayload(s, proc.content, proc.type))

\* C14: when the cache write fails, analyze still returns, and returns the
\* assembled map: for each service the outcome its own run determined, as
\* when the write succeeds.
C14_WriteFailureSwallowed ==
    (pc = "done" /\ hist.write_failed) =>
        /\ returned = results
        /\ DOMAIN returned = Services
        /\ \A s \in Services : returned[s] = ExpectedOutcome(s)

C14_Witness ==
    /\ pc = "done"
    /\ hist.write_failed
    /\ hist.writes = 1
    /\ DOMAIN returned = Services
    /\ ~HoldsValid(cache, proc.key)

\* C16: in the parallel path, whatever the order in which the three tasks
\* complete, each key of the result map holds the outcome of its own service
\* (success flag, payload, error message), and each key is assigned once, by
\* the orchestrating thread as it takes the completed task, never reassigned.
C16_OrderIndependentAssembly ==
    [][/\ path' = "parallel" =>
             \A s \in DOMAIN results' : results'[s] = ExpectedOutcome(s)'
       /\ (results' # results /\ pc' # "stage1") =>
             \E s \in Services \ DOMAIN results :
                /\ task[s] = "running"
                /\ task'[s] = "done"
                /\ DOMAIN results' = DOMAIN results \cup {s}
                /\ \A t \in DOMAIN results : results'[t] = results[t]]_vars

C16_Witness ==
    /\ pc = "join"
    /\ path = "parallel"
    /\ DOMAIN results = {"visuals", "recommendations"}
    /\ task["summary"] = "running"
    /\ results["visuals"].success
    /\ ~results["recommendations"].success

\* C17: when the content takes the CSV fast path and the local analysis
\* succeeds, each of the three outcomes is the success synthesized from the
\* local profile and no service function (hence no model call) is invoked at
\* any point of the request.
C17_LocalProfileNoModel ==
    (path = "csv" /\ pc \in {"join", "ret", "done"} /\ proc.local_ok) =>
        /\ hist.called = {}
        /\ \A s \in DOMAIN results :
              results[s] = ServiceResult_Success(LocalPayload(s, proc.content))
        /\ pc = "done" => (returned = results /\ DOMAIN returned = Services)

C17_Witness ==
    /\ pc = "done"
    /\ path = "csv"
    /\ proc.local_ok
    /\ hist.called = {}
    /\ \A s \in Services : returned[s].success /\ returned[s].data.via = "local"

\* C18: when the local analysis fails for content on the CSV fast path, the
\* request is not aborted: every one of the three services runs its
\* model-based function, and the returned map has the keys summary,
\* recommendations and visuals, each holding the outcome of that function.
C18_LocalFailureFallsBack ==
    (path = "csv" /\ pc = "done" /\ ~proc.local_ok) =>
        /\ DOMAIN returned = Services
        /\ hist.called = Services
        /\ \A s \in Services :
              returned[s] = IF s \in hist.raised
                            THEN ServiceResult_Failure(<<FastCsvPrefix(s)>>)
                            ELSE ServiceResult_Success(
                                    ModelPayload(s, proc.content, "text/csv"))

C18_Witness ==
    /\ pc = "done"
    /\ path = "csv"
    /\ ~proc.local_ok
    /\ hist.called = Services
    /\ \A s \in Services : returned[s].success /\ returned[s].data.via = "model"

\* C27 (as claimed): the map read back from the whole-request cache equals,
\* field for field and with its typed payloads, the result map that was
\* written to it.
C27_Claim ==
    (/\ pc \in {"ret", "done"}
     /\ path \in {"parallel", "csv"}
     /\ hist.writes > 0
     /\ ~hist.write_failed) =>
        IF orch = "std"
        THEN cache_get(cache, proc.key) = results
        ELSE _get_cached_result(cache, proc.key) = results

\* the request carries bytes to classify: a URL, or inline bytes
HasBytes == req.file_url # None \/ (req.content # NoContent /\ req.content.typ = "bytes")

\* C28 (as the code has it): within one analyze request the classifier runs at
\* most once.  FastIntelligenceOrchestrator runs it only after the cache
\* lookup (if any) missed, and not at all on a cache hit;
\* IntelligenceOrchestrator runs it on bytes before it consults the cache,
\* whose key is taken from the classified content, so that on a cache hit the
\* classification has been performed, and it never runs it on str content.
\* A request that hit the cache or failed in stage 1 starts no service.
C28_ClassifiedAtMostOnce ==
    /\ hist.classified <= 1
    /\ orch = "fast" =>
          /\ path = "hit" => hist.classified = 0
          /\ hist.classified = 1 => path \in {"csv", "parallel"}
          /\ path \in {"csv", "parallel"} => hist.classified = 1
    /\ orch = "std" =>
          /\ (path \in {"hit", "parallel"} /\ HasBytes) => hist.classified = 1
          /\ ~HasBytes => hist.classified = 0
          /\ path # "csv"
    /\ path \in {"hit", "error"} =>
          (pc = "done" /\ \A s \in Services : task[s] = "none")

\* C28 witness: IntelligenceOrchestrator answers a request for bytes from the
\* cache, having classified the bytes
C28_Witness ==
    /\ orch = "std"
    /\ path = "hit"
    /\ HasBytes
    /\ hist.classified = 1
    /\ hist.lookups = 1
    /\ pc = "done"

\* C28 (as claimed): the classifier runs at most once per request and only
\* after the cache was consulted and missed; on a cache hit no classification
\* is performed.
C28_Claim ==
    /\ hist.classified <= 1
    /\ path = "hit" => hist.classified = 0
    /\ hist.classified = 1 => path \in {"csv", "parallel"}

\* the map holds a failed outcome or the error key
HasFailure(map) ==
    \/ "error" \in DOMAIN map
    \/ \E k \in DOMAIN map : ~map[k].success

\* C36 (as claimed): a result map that holds a failed outcome (or the error
\* key) is never written to the whole-request cache, so that a later request
\* with the same fingerprint is never served a cached failure.
C36_Claim ==
    /\ \A k \in DOMAIN cache : ~HasFailure(cache[k].value)
    /\ (pc = "done" /\ path = "hit") => ~HasFailure(returned)

\* C39: with use_cache=False, FastIntelligenceOrchestrator.analyze neither
\* reads nor writes the whole-request cache: no step of the request looks an
\* entry up, returns a stored entry or changes the cache contents, on the URL
\* and the inline path, the fast and the parallel path alike.
C39_CacheBypassed ==
    [][(orch = "fast" /\ pc \notin {"idle", "done"} /\ ~req.use_cache) =>
          /\ cache' = cache
          /\ hist'.lookups = 0
          /\ hist'.writes = 0
          /\ path' # "hit"]_vars

\* C39 witness: a request with use_cache=False, whose fingerprint has an
\* entry in the cache, ran its services afresh and returned their results
C39_Witness ==
    /\ orch = "fast"
    /\ pc = "done"
    /\ ~req.use_cache
    /\ proc.key \in DOMAIN cache
    /\ path \in {"csv", "parallel"}
    /\ hist.lookups = 0
    /\ hist.writes = 0
    /\ DOMAIN returned = Services

\* ---------------------------------------------------- SpecRace: properties

\* C15 (as claimed): with two concurrent requests for one fingerprint, every
\* cache read observes no entry or the complete map of one of the two
\* requests, never a partial or mixed value, and once both have finished the
\* cache holds the complete map of the last writer.
C15_Claim ==
    /\ race.seen \subseteq {"none", "map1", "map2"}
    /\ ((\A i \in Reqs : race.rq[i].pc = "done") /\ race.last # 0) =>
          Load(race.file, Lens) = {MapOf(race.last)}

\* the backoff sleeps, in milliseconds, that precede request n + 1
BackoffBefore(n) == SubSeq(<<1000, 2000>>, 1, n)

\* the first n answers of the server were all transport-layer errors
KeepsFailing(n) == Len(cl.outs) = n /\ \A i \in 1..n : cl.outs[i] = "transport"

\* what the claim says of a fetch, for the fetch of the caller under study
FetchAsClaimed ==
    /\ cl.dl.requests = Len(cl.outs)
    /\ cl.dl.requests <= 3
    /\ \A n \in 1..2 : KeepsFailing(n) =>
          (cl.dl.status = "loop" /\ cl.dl.sleeps = BackoffBefore(n))
    /\ KeepsFailing(3) =>
          (/\ cl.dl.status = "raised"
           /\ cl.dl.error = cl.outs[3]
           /\ cl.dl.sleeps = BackoffBefore(2))
    /\ \A i \in 1..Len(cl.outs) : DownloadOk(cl.outs[i]) =>
          (/\ i = Len(cl.outs)
           /\ cl.dl.status = "returned"
           /\ cl.dl.sleeps = BackoffBefore(i - 1))

\* C19 (as the code has it): IntelligenceOrchestrator._download_with_retry
\* requests the URL at most 3 times; while the requests keep failing with a
\* transport-layer error it sleeps 1 s after the first failure and 2 s after
\* the second, and it raises the last error after the third; a request that
\* succeeds, with an empty body too, ends the fetch at once.
\* FastIntelligenceOrchestrator._download_file requests the URL once, never
\* sleeps, and raises the error of that one request.
C19_BoundedFetch ==
    /\ cl.kind = "download" => FetchAsClaimed
    /\ cl.kind = "fast_download" =>
          /\ cl.dl.requests = Len(cl.outs)
          /\ cl.dl.requests <= 1
          /\ cl.dl.sleeps = <<>>
          /\ cl.dl.requests = 1 =>
                IF DownloadOk(cl.outs[1])
                THEN cl.dl.status = "returned"
                ELSE cl.dl.status = "raised" /\ cl.dl.error = cl.outs[1]

\* C19 witness: three transport errors in a row, two sleeps, the third raised
C19_Witness ==
    /\ cl.kind = "download"
    /\ KeepsFailing(3)
    /\ cl.dl.status = "raised"
    /\ cl.dl.requests = 3
    /\ cl.dl.sleeps = <<1000, 2000>>
    /\ cl.dl.error = "transport"

\* C19 (as claimed): every URL fetch, of either orchestrator, that keeps
\* failing with a transport-layer error is attempted up to 3 times with
\* sleeps of 1 s and 2 s and raises after the third failure, and a fetch that
\* succeeds on any attempt returns without further attempts.
C19_Claim ==
    cl.kind \in {"download", "fast_download"} => FetchAsClaimed

\* C20 (as claimed): a non-retryable download failure (HTTP 4xx, DNS
\* failure) surfaces immediately: _download_with_retry requests the URL
\* exactly once and performs no backoff sleep.
C20_Claim ==
    (cl.kind = "download" /\ Len(cl.outs) >= 1 /\ cl.outs[1] \in {"http4xx", "dns"}) =>
        /\ cl.dl.status = "raised"
        /\ cl.dl.requests = 1
        /\ cl.dl.sleeps = <<>>
        /\ cl.dl.error = cl.outs[1]

\* C21: when the download of a URL request fails (for IntelligenceOrchestrator
\* after its third request), analyze has returned a map whose only key is
\* error, no analysis service was started and nothing was written to the cache.
C21_DownloadFailureIsFatal ==
    hist.download = "raised" =>
        /\ req.file_url # None
        /\ pc = "done"
        /\ path = "error"
        /\ DOMAIN returned = {"error"}
        /\ ~returned["error"].success
        /\ \A s \in Services : task[s] = "none"
        /\ results = EmptyMap
        /\ hist.called = {}
        /\ hist.writes = 0
        /\ orch = "std" => hist.downloads = download_max_retries

\* C21 witness: the third request of a download failed too, with a map in the cache
C21_Witness ==
    /\ orch = "std"
    /\ hist.download = "raised"
    /\ hist.downloads = 3
    /\ cache # <<>>
    /\ DOMAIN returned = {"error"}

\* C22 (as claimed): whenever a non-empty MIME hint is supplied to analyze and
\* the services are started, the category handed to the three services is that
\* hint verbatim, for byte content and for text content alike.
C22_Claim ==
    (/\ req.mime_type # None
     /\ \E s \in Services : task[s] # "none") =>
        proc.type = req.mime_type

\* ------------------------------------------------ SpecService: properties

\* the normalizer of service s has just been applied to cl.sv.resp
Normalized(s) ==
    /\ cl.kind = "service"
    /\ cl.sv.svc = s
    /\ cl.sv.calls # <<>>
    /\ ~(s = "summary" /\ cl.sv.calls[Len(cl.sv.calls)] = "chunk")

\* C23 (as claimed): the Summary, Recommendations and Visuals normalizers
\* never raise: whatever the model response, each returns a result.
C23_Claim ==
    \A s \in Services : Normalized(s) => cl.sv.norm.status = "returned"

\* the answer of the full model holds nothing a chart could be made of: no
\* parsed payload and a text that is empty, free of JSON, or a JSON object
\* without a chart key
NothingToExtract(response) ==
    /\ response.parsed = NoDoc
    /\ \/ response.text.form \in {"empty", "plain"}
       \/ /\ response.text.form \in {"json", "prose"}
          /\ response.text.doc.key = "other"

C25_Claim ==
    (cl.kind = "service" /\ cl.sv.pc = "done" /\ cl.sv.out.status = "returned") =>
        cl.sv.out.n <= cl.sv.max

\* ---------------------------------------------------- SpecCsv: properties

\* the CSV of the claim: header Date,Supplier,Amount, two data rows, the
\* amounts 100 and 200 the only numbers
ClaimTable == [headers |-> <<"Date", "Supplier", "Amount">>, numeric |-> {"Amount"}, rows |-> 2,
               readable |-> TRUE]

HasChart(charts, types, x) ==
    \E i \in 1..Len(charts) : charts[i].chart_type \in types /\ x \in {charts[i].x_axis, charts[i].about}

\* C26 (as claimed): for the bytes of the CSV Date,Supplier,Amount with two
\* data rows and no MIME hint the content is classified csv, and the fast path
\* yields a summary reporting 2 rows, at least 5 recommendations, and charts
\* with a line chart whose x-axis is Date and a bar or pie chart that
\* references the Supplier column.
C26_Claim ==
    (cl.kind = "csv" /\ cl.csv.table = ClaimTable /\ cl.csv.pc # "idle") =>
        /\ cl.csv.path = "csv"
        /\ cl.csv.pc = "done" =>
              /\ cl.csv.summary.row_count = 2
              /\ cl.csv.recommendations >= 5
              /\ \E i \in 1..Len(cl.csv.visuals) :
                    /\ cl.csv.visuals[i].chart_type = "line"
                    /\ cl.csv.visuals[i].x_axis = "Date"
              /\ HasChart(cl.csv.visuals, {"bar", "pie"}, "Supplier")

\* the service was given oversized bytes and went through all its chunk calls
\* without an exception
ChunksCompleted ==
    /\ cl.kind = "service"
    /\ cl.sv.big
    /\ cl.sv.pc = "done"
    /\ cl.sv.out.src = "chunks" \/ cl.sv.calls[Len(cl.sv.calls)] # "chunk"

CallsOf(tag) == Cardinality({j \in 1..Len(cl.sv.calls) : cl.sv.calls[j] = tag})

\* C29 (as claimed): for oversized bytes, a service whose chunk answers held
\* extractable partial items makes, after all its chunk calls, exactly one
\* consolidation call against the full model and no fallback call; the
\* fallback call is made exactly when no partial items were extracted (the
\* summary service, which keeps one partial summary for every chunk, always
\* consolidates).
C29_Claim ==
    ChunksCompleted =>
        LET last == cl.sv.calls[Len(cl.sv.calls)]
        IN  /\ cl.sv.calls # <<>>
            /\ \A j \in 1..(Len(cl.sv.calls) - 1) : cl.sv.calls[j] = "chunk"
            /\ IF cl.sv.svc = "summary" \/ cl.sv.extractable
               THEN last = "consolidate" /\ CallsOf("fallback") = 0
               ELSE last = "fallback" /\ CallsOf("consolidate") = 0

\* ---------------------------------------------- SpecClassify: properties

\* the category of a MIME type: a ZIP container and an octet stream are binary
CategoryOf(type) ==
    CASE type = "text/csv" -> "csv"
      [] type = "application/pdf" -> "pdf"
      [] type = "text/plain" -> "text"
      [] OTHER -> "binary"

\* rules (a) to (e), in order, for a sample of these lines
RuledCategory(sample, lines) ==
    LET first5 == SubSeq(lines, 1, Min(5, Len(lines)))
        consistent ==
            /\ Len(lines) >= 2
            /\ \A i \in 1..Len(first5) : first5[i] >= 2
            /\ \A i, j \in 1..Len(first5) : first5[i] - first5[j] <= 1
    IN  IF sample.utf8 /\ consistent THEN "csv"
        ELSE IF sample.magic = "pdf" THEN "pdf"
        ELSE IF sample.magic = "zip" THEN "binary"
        ELSE IF sample.utf8 THEN "text"
        ELSE "binary"

\* C31 (as claimed): without a hint, byte content is classified by rules (a)
\* to (e) in order: UTF-8 text of at least 2 lines with a consistent comma
\* count (at least 2 commas, max - min at most 1 over the first 5 lines) is
\* csv; else PDF magic is pdf; else ZIP magic is binary; else UTF-8-decodable
\* content is text; otherwise, non-UTF-8 content without magic bytes
\* included, binary.
C31_Claim ==
    (cl.kind = "classify" /\ cl.cf.pc = "done") =>
        CategoryOf(cl.cf.type) = RuledCategory(cl.cf.sample, cl.cf.lines)

\* the fast path ran this service on a profile that analyze_csv_locally returned
FastRan(s) ==
    /\ cl.kind = "csv"
    /\ s \in cl.csv.ran
    /\ ~cl.csv.profile.error

ChartsOf(type) == {i \in 1..Len(cl.csv.visuals) : cl.csv.visuals[i].chart_type = type}

\* the chart of this type in the list, when there is exactly one
TheChart(type) == cl.csv.visuals[CHOOSE i \in ChartsOf(type) : TRUE]

\* the first header that is date-like
FirstDateLike(headers) ==
    LET dated == {i \in 1..Len(headers) : headers[i] \in {"Date"}}
    IN  IF dated = {} THEN None
        ELSE headers[CHOOSE i \in dated : \A j \in dated : i <= j]

\* C32: for every successful CSV profile the fast-path Visuals list holds a
\* bar chart (first categorical column by first numeric column) exactly when
\* a categorical and a numeric column exist, a pie chart (of the first
\* categorical column) exactly when a categorical column exists, a line chart
\* (first date-like header by first numeric column) exactly when both exist,
\* and the single text_summary entry exactly when none of these apply; the
\* list is never empty.
C32_FastCharts ==
    FastRan("visuals") =>
        LET p == cl.csv.profile
            cat == p.categorical_columns
            num == p.numeric_columns
            date == FirstDateLike(p.headers)
            wantBar == cat # <<>> /\ num # <<>>
            wantPie == cat # <<>>
            wantLine == date # None /\ num # <<>>
        IN  /\ cl.csv.visuals # <<>>
            /\ Cardinality(ChartsOf("bar")) = IF wantBar THEN 1 ELSE 0
            /\ wantBar => (TheChart("bar").x_axis = cat[1] /\ TheChart("bar").y_axis = num[1])
            /\ Cardinality(ChartsOf("pie")) = IF wantPie THEN 1 ELSE 0
            /\ wantPie => TheChart("pie").about = cat[1]
            /\ Cardinality(ChartsOf("line")) = IF wantLine THEN 1 ELSE 0
            /\ wantLine => (TheChart("line").x_axis = date /\ TheChart("line").y_axis = num[1])
            /\ Cardinality(ChartsOf("text_summary")) =
                  IF wantBar \/ wantPie \/ wantLine THEN 0 ELSE 1
            /\ \A i \in 1..Len(cl.csv.visuals) :
                  cl.csv.visuals[i].chart_type \in {"bar", "pie", "line", "text_summary"}

\* C32 witness: a table with a categorical, a numeric and a date-like column
\* got its three charts, and the request returned
C32_Witness ==
    /\ FastRan("visuals")
    /\ cl.csv.pc = "done"
    /\ Len(cl.csv.visuals) = 3
    /\ cl.csv.profile.categorical_columns # <<>>
    /\ cl.csv.profile.numeric_columns # <<>>

\* C33: for every successful CSV profile the fast-path Recommendations list
\* ends with the fixed general set of 3 recommendations, preceded by the two
\* supplier-consolidation lines exactly when an amount-like and a
\* supplier-like header are both present and then by the category-sourcing
\* line exactly when a category-like header is present; for headers Supplier,
\* Amount, Category the list has at least 5 items.
C33_FastRecommendations ==
    FastRan("recommendations") =>
        LET h == Range(cl.csv.profile.headers)
            list == cl.csv.list
            n == Len(list)
            supplier == {"Amount", "Supplier"} \subseteq h
            category == "Category" \in h
            lead == SubSeq(list, 1, n - 3)
        IN  /\ n >= 3
            /\ cl.csv.recommendations = n
            /\ SubSeq(list, n - 2, n) = general_recommendations
            /\ lead = (IF supplier THEN <<"consolidate_suppliers", "spend_analysis">> ELSE <<>>)
                       \o (IF category THEN <<"category_sourcing">> ELSE <<>>)
            /\ h = {"Supplier", "Amount", "Category"} => n >= 5

\* C33 witness: the headers Supplier, Amount, Category got the supplier
\* lines, the category line and the general set
C33_Witness ==
    /\ FastRan("recommendations")
    /\ cl.csv.pc = "done"
    /\ cl.csv.profile.headers = <<"Supplier", "Amount", "Category">>
    /\ Len(cl.csv.list) = 6

\* C34 (as claimed): the Local CSV Analyzer returns a result carrying an
\* error, and never a profile, when the input is unparsable or has zero data
\* rows (a header row only).
C34_Claim ==
    (cl.kind = "csv_local" /\ cl.csv.pc = "done"
       /\ (~cl.csv.table.readable \/ cl.csv.table.rows = 0)) =>
        cl.csv.profile.error

\* ---------------------------------------------------- FairSpec: properties

\* C35: every analyze call eventually returns, provided each download attempt
\* and each model call itself returns or raises; the retry loops end within
\* their budgets and the tasks are joined.
C35_AnalyzeReturns == (pc = "stage1") ~> (pc = "done")

\* C35 witness: a request whose download was retried and whose services all
\* ran out of retries has returned
C35_Witness ==
    /\ pc = "done"
    /\ orch = "std"
    /\ path = "parallel"
    /\ hist.downloads > 1
    /\ hist.raised = Services
    /\ DOMAIN returned = Services

====
